---- MODULE Spec2Model ----
(***************************************************************************)
(* A model of the MetaBlooms mechanical audit (src/metablooms_audit.py):   *)
(* MetaBloomsAuditor.run extracts a bundle archive into a temporary        *)
(* workspace, runs eight checks in a fixed order, each appending findings  *)
(* to one of five buckets of an AuditReport, and audit_bundle turns the    *)
(* report into the five-key dictionary that is printed.                    *)
(***************************************************************************)
EXTENDS Integers, Sequences, FiniteSets, TLC

\* ------------------------------------------------------------------ bounds
\* The largest number of root files matching *gate*.py in a bundle.
MaxGateFiles == 2
\* The largest number of *.json files in the bundle's schemas/ directory.
MaxSchemaFiles == 2
\* The number of gate files of a bundle that has more of them than the sample
\* of the gate finding holds.
BigGateFiles == 11
\* The largest directory of which every listing order is tried; of a larger
\* one only the rotations of the name order and its reverse are.
FullListingMax == 3

\* ------------------------------------------------------- source text model
\* A source text is a sequence of fragments, one per line.  Python's
\* `needle in source` is decided per fragment by the table Parts: the
\* needles (among those the checks search for) that occur in the fragment
\* as written.  str.lower() is the table Lower.
Parts(frag) ==
    CASE frag = "latest.json"        -> {"latest.json"}
      [] frag = "manifests"          -> {"manifests"}
      [] frag = "delta"              -> {"delta"}
      [] frag = "sha256"             -> {"sha256"}
      [] frag = "ledger"             -> {"ledger"}
      [] frag = "ledger_path = 'boot.ndjson'" -> {"ledger"}
      [] frag = "ledger_path='boot.ndjson'" -> {"ledger"}
      [] frag = "open("              -> {"open("}
      [] frag = ".write("            -> {".write(", "write("}
      [] frag = "mode = \"a\""       -> {"\"a\""}
      [] frag = "mode = 'a'"         -> {"'a'"}
      [] frag = "RUNTIME_INDEX.json" -> {"RUNTIME_INDEX.json"}
      [] frag = "mygate"             -> {"gate"}
      [] frag = "boot_manifest.json" -> {"boot_manifest.json"}
      [] frag = "import gate_csrg"   -> {"gate", "csrg"}
      [] frag = "gate_csrg"          -> {"gate", "csrg"}
      [] frag = "csrg"               -> {"csrg"}
      [] frag = "jsonschema"         -> {"jsonschema"}
      [] frag = "validate("          -> {"validate("}
      [] OTHER                       -> {}

Lower(frag) ==
    CASE frag = "DELTA"  -> "delta"
      [] frag = "SHA256" -> "sha256"
      [] frag = "LEDGER" -> "ledger"
      [] frag = "LEDGER_PATH = 'boot.ndjson'" -> "ledger_path = 'boot.ndjson'"
      [] frag = "LEDGER_PATH='boot.ndjson'" -> "ledger_path='boot.ndjson'"
      [] frag = "MyGate" -> "mygate"
      [] frag = "CSRG"   -> "csrg"
      [] OTHER           -> frag

\* needle in source
Contains(src, needle) ==
    \E i \in 1..Len(src) : needle \in Parts(src[i])

\* needle in source.lower()
ContainsLower(src, needle) ==
    \E i \in 1..Len(src) : needle \in Parts(Lower(src[i]))

\* The fragment that is not Python: ast.parse raises SyntaxError at its line.
BadSyntax == "def (:"

\* ast.parse(source): "" when the source parses, else str(SyntaxError), which
\* carries the parser's message and the line number of the offending line.
SyntaxErrorOf(src) ==
    IF \E i \in 1..Len(src) : src[i] = BadSyntax
    THEN LET i == CHOOSE j \in 1..Len(src) :
                     /\ src[j] = BadSyntax
                     /\ \A k \in 1..(j - 1) : src[k] # BadSyntax
         IN  "invalid syntax (<unknown>, line " \o ToString(i) \o ")"
    ELSE ""

\* The module named by an import line, "" for any other line.
ImportedModule(frag) ==
    CASE frag = "import gate_csrg" -> "gate_csrg"
      [] frag = "import json"      -> "json"
      [] frag = "import MyGate"    -> "MyGate"
      [] OTHER                     -> ""

\* ------------------------------------------------------------ the bundles
\* BOOT_METABLOOMS.py: absent, bytes that are not text, or a source text.
BootAbsent == [kind |-> "absent", src |-> <<>>]
BootBinary == [kind |-> "binary", src |-> <<>>]
BootText(src) == [kind |-> "text", src |-> src]

BootSources ==
    { <<>>,
      <<"import json", "latest.json", "delta", "sha256",
        "LEDGER_PATH = 'boot.ndjson'", "open(",
        "mode = \"a\"", "boot_manifest.json", "import gate_csrg">>,
      <<"ledger", "mode = \"a\"", "DELTA", "SHA256", "manifests">>,
      <<"import gate_csrg", "def (:", "LEDGER", ".write(", "mode = \"a\"",
        "boot_manifest.json">>,
      <<"import json", "jsonschema", "delta", "sha256">> }

BootFiles == {BootAbsent, BootBinary} \cup {BootText(s) : s \in BootSources}

\* Other Python files a bundle may hold: a root file and a nested one.
ExtraPyFiles ==
    { [dir |-> "", name |-> "validator.py", src |-> <<"jsonschema">>],
      [dir |-> "tools", name |-> "csrg_impl.py", src |-> <<"CSRG", "validate(">>] }

GateName(i) == "gate_" \o ToString(i) \o ".py"
SchemaName(i) == "schema_" \o ToString(i) \o ".json"

\* A JSON file: absent, not JSON, a JSON array, or a JSON object with its
\* top-level keys in file order; size is st_size, here two bytes of brackets
\* and one per key.
JsonFile(kind, keys, entrypoint, preflight) ==
    [kind |-> kind, keys |-> keys, entrypoint |-> entrypoint, preflight |-> preflight,
     size |-> IF kind = "absent" THEN 0 ELSE 2 + Len(keys)]
JsonAbsent == JsonFile("absent", <<>>, "", <<>>)
JsonInvalid == JsonFile("invalid", <<>>, "", <<>>)
JsonArray == JsonFile("array", <<>>, "", <<>>)
JsonObject(keys, entrypoint, preflight) == JsonFile("object", keys, entrypoint, preflight)

\* str(json.JSONDecodeError) for the invalid file.
JsonErrorText == "Expecting value: line 1 column 1 (char 0)"

IndexFiles ==
    { JsonAbsent, JsonInvalid, JsonArray, JsonObject(<<"version", "files">>, "", <<>>) }

ManifestFiles ==
    { JsonAbsent, JsonInvalid, JsonArray,
      JsonObject(<<"entrypoint", "preflight">>, "RUN_METABLOOMS.py", <<"gate_csrg">>),
      JsonObject(<<"entrypoint">>, "RUN_X.py", <<>>) }

\* The file tree of a bundle.
Trees ==
    [ boot     : BootFiles,
      run      : BOOLEAN,
      gates    : {0, MaxGateFiles},
      extras   : SUBSET ExtraPyFiles,
      schemas  : {-1, 0, MaxSchemaFiles},
      index    : IndexFiles,
      manifest : ManifestFiles ]

NoTree ==
    [ boot |-> BootAbsent, run |-> FALSE, gates |-> 0, extras |-> {},
      schemas |-> -1, index |-> JsonAbsent, manifest |-> JsonAbsent ]

\* Names of archive members beside the tree, as path components: a relative
\* member, one that climbs out of the root, and an absolute one.
MemberNames ==
    { <<"docs", "x">>, <<"..", "x">>, <<"", "etc", "x">> }

\* An archive: unreadable (not a zip file), or a tree plus one more member.
Bundles ==
    { [readable |-> FALSE, member |-> <<"docs", "x">>, tree |-> NoTree] }
    \cup [ readable : {TRUE}, member : MemberNames, tree : Trees ]

\* ------------------------------------------------------------------ state
VARIABLES
    bundle,   \* the archive at zip_path
    pc,       \* the position of audit_bundle / MetaBloomsAuditor.run
    ws,       \* the temporary workspace: "none", "live" or "deleted"
    tree,     \* the file tree under extract_dir
    written,  \* where extractall wrote the extra member, relative to extract_dir
    report,   \* self.report, the AuditReport
    exc,      \* the exception in flight, "none" when there is none
    output,   \* what audit_bundle returned
    log,      \* history: what happened so far in this run, in order
    earlier,  \* what earlier calls of audit_bundle on the same archive returned
    boot_source,  \* boot_capability_probe: the source given to the extractor
    surface,      \* boot_capability_probe: what the last call returned or raised
    sandbox,      \* CHATGPT_BOOT_SAFE: the working directory and /mnt/data/mb_runtime
    safeboot,     \* CHATGPT_BOOT_SAFE: where main is, and what it has done
    project,      \* build_os_bundle: what the builder is given and finds on disk
    builder,      \* build_os_bundle: where build is, and what it has written
    LEDGER,       \* the ledger generators: the file ledger/ledger.ndjson
    generator     \* the ledger generators: the script that runs, and where it is

\* The state of the auditor, and the state of each of the other programs.
auditVars == <<bundle, pc, ws, tree, written, report, exc, output, log, earlier>>
probeVars == <<boot_source, surface>>
safeVars == <<sandbox, safeboot>>
buildVars == <<project, builder>>
ledgerVars == <<LEDGER, generator>>
others == <<probeVars, safeVars, buildVars, ledgerVars>>

vars == <<auditVars, others>>

\* The fields of AuditReport, in declaration order.
Buckets ==
    <<"verified_implementations", "present_but_unwired", "missing",
      "spec_conflicts", "unverifiable">>

BucketSet == {Buckets[i] : i \in 1..Len(Buckets)}

\* AuditReport(): every field an empty list.
EmptyReport == [b \in BucketSet |-> <<>>]

\* No dictionary has been returned.
NoOutput == [returned |-> FALSE]

\* The checks, in the order run calls them.
Checks ==
    <<"check_boot_structure", "check_delta_enforcement", "check_gate_wiring",
      "check_schema_usage", "check_ledger_integration", "check_index_usage",
      "check_csrg_presence", "check_manifest_loading">>

CheckSet == {Checks[i] : i \in 1..Len(Checks)}

IndexOfCheck(c) == CHOOSE i \in 1..Len(Checks) : Checks[i] = c

\* Where run goes after check c returns: the next check, or out of the with block.
AfterCheck(c) ==
    IF IndexOfCheck(c) < Len(Checks) THEN Checks[IndexOfCheck(c) + 1] ELSE "exit"

\* An entry of the history.
Event(ev, check, bucket, component) ==
    [ev |-> ev, check |-> check, bucket |-> bucket, component |-> component]

\* What one call of a check does: the findings it appends, in order, each with
\* its bucket, and the exception it raises ("none": it returns).
Outcome(adds, e) == [adds |-> adds, exc |-> e]
Add(bucket, finding) == [bucket |-> bucket, finding |-> finding]

\* self.report.<bucket>.append(finding), for each finding of adds in order.
Appended(rep, adds) ==
    [b \in BucketSet |->
        LET mine == SelectSeq(adds, LAMBDA a : a.bucket = b)
        IN  rep[b] \o [i \in 1..Len(mine) |-> mine[i].finding]]

\* The permutations of a finite set, as sequences: the orders in which a
\* directory listing (Path.glob) may enumerate its entries.
Listings(S) ==
    {s \in [1..Cardinality(S) -> S] : \A x \in S : \E i \in 1..Cardinality(S) : s[i] = x}

\* The orders in which the listing of *gate*.py may come for n gate files.
GateListings(n) ==
    IF n <= FullListingMax
    THEN Listings({GateName(i) : i \in 1..n})
    ELSE {[i \in 1..n |-> GateName(((i + k - 1) % n) + 1)] : k \in 0..(n - 1)}
         \cup {[i \in 1..n |-> GateName(((n - i + k) % n) + 1)] : k \in 0..(n - 1)}

\* ------------------------------------------------------------ BootAnalyzer
\* BootAnalyzer(boot_path): read_text raises on bytes that are not text;
\* a SyntaxError is caught and leaves tree = None.
AnalyzerRaises(boot) == boot.kind = "binary"

\* BootAnalyzer.extract_imports: [] without a tree, else the imported modules.
extract_imports(boot) ==
    IF SyntaxErrorOf(boot.src) # "" THEN <<>>
    ELSE LET lines == SelectSeq(boot.src, LAMBDA f : ImportedModule(f) # "")
         IN  [i \in 1..Len(lines) |-> ImportedModule(lines[i])]

\* BootAnalyzer.loads_file: filename in self.source.
loads_file(boot, filename) == Contains(boot.src, filename)

\* ----------------------------------------------------------------- checks
\* Each check is given the tree under extract_dir and, where it lists a
\* directory, the order the listing came in.

\* check_boot_structure without the return after the RUN_METABLOOMS.py finding.
check_boot_structure_no_return(t) ==
    IF t.boot.kind = "absent"
    THEN Outcome(<<Add("missing", [component |-> "BOOT_METABLOOMS.py",
                                   reason |-> "File not found in bundle"])>>, "none")
    ELSE LET first == IF ~t.run
                      THEN <<Add("missing", [component |-> "RUN_METABLOOMS.py",
                                             reason |-> "File not found in bundle"])>>
                      ELSE <<>>
         IN  IF t.boot.kind = "binary"
             THEN Outcome(first, "UnicodeDecodeError")
             ELSE IF SyntaxErrorOf(t.boot.src) = ""
             THEN Outcome(first \o <<Add("verified_implementations",
                               [component |-> "BOOT_METABLOOMS.py",
                                detail |-> "File exists and is valid Python",
                                path |-> "BOOT_METABLOOMS.py"])>>, "none")
             ELSE Outcome(first \o <<Add("missing",
                               [component |-> "BOOT_METABLOOMS.py",
                                reason |-> "Syntax error: " \o SyntaxErrorOf(t.boot.src)])>>, "none")

\* check_boot_structure
check_boot_structure(t) ==
    IF t.boot.kind = "absent"
    THEN Outcome(<<Add("missing", [component |-> "BOOT_METABLOOMS.py",
                                   reason |-> "File not found in bundle"])>>, "none")
    ELSE IF ~t.run
    THEN Outcome(<<Add("missing", [component |-> "RUN_METABLOOMS.py",
                                   reason |-> "File not found in bundle"])>>, "none")
    ELSE IF t.boot.kind = "binary"
    THEN Outcome(<<>>, "UnicodeDecodeError")
    ELSE IF SyntaxErrorOf(t.boot.src) = ""
    THEN Outcome(<<Add("verified_implementations",
                       [component |-> "BOOT_METABLOOMS.py",
                        detail |-> "File exists and is valid Python",
                        path |-> "BOOT_METABLOOMS.py"])>>, "none")
    ELSE Outcome(<<Add("missing",
                       [component |-> "BOOT_METABLOOMS.py",
                        reason |-> "Syntax error: " \o SyntaxErrorOf(t.boot.src)])>>, "none")

\* check_delta_enforcement
check_delta_enforcement(t) ==
    IF t.boot.kind = "absent" THEN Outcome(<<>>, "none")
    ELSE IF AnalyzerRaises(t.boot) THEN Outcome(<<>>, "UnicodeDecodeError")
    ELSE LET loads_latest == loads_file(t.boot, "latest.json")
             loads_manifests == loads_file(t.boot, "manifests")
             has_delta_hash == /\ ContainsLower(t.boot.src, "delta")
                               /\ Contains(t.boot.src, "sha256")
             first == IF ~(loads_latest \/ loads_manifests)
                      THEN <<Add("missing",
                                 [component |-> "Delta manifest loading",
                                  reason |-> "No reference to 'latest.json' or 'manifests' in BOOT_METABLOOMS.py",
                                  evidence |-> "Static source analysis: 0 occurrences"])>>
                      ELSE <<>>
             second == IF ~has_delta_hash
                       THEN <<Add("missing",
                                  [component |-> "Delta SHA256 verification",
                                   reason |-> "No evidence of delta hash verification in boot",
                                   evidence |-> "Source contains doctrine hash verification only"])>>
                       ELSE <<>>
         IN  Outcome(first \o second, "none")

\* gate_files[:10]
GateSampleSize == 10

\* check_gate_wiring with the whole listing in `files`, not its first ten names.
check_gate_wiring_uncapped(t, gate_files) ==
    IF Len(gate_files) = 0
    THEN Outcome(<<Add("missing", [component |-> "Gate infrastructure",
                                   reason |-> "No gate files found"])>>, "none")
    ELSE IF t.boot.kind = "absent" THEN Outcome(<<>>, "none")
    ELSE IF AnalyzerRaises(t.boot) THEN Outcome(<<>>, "UnicodeDecodeError")
    ELSE LET imports == extract_imports(t.boot)
             gate_imports == SelectSeq(imports, LAMBDA imp : "gate" \in Parts(Lower(imp)))
         IN  IF Len(gate_imports) = 0
             THEN Outcome(<<Add("present_but_unwired",
                     [component |-> "Gate files",
                      count |-> Len(gate_files),
                      files |-> gate_files,
                      reason |-> "Gate files exist but are not imported by BOOT_METABLOOMS.py",
                      evidence |-> "Found " \o ToString(Len(gate_files))
                                   \o " gate files, 0 gate imports in boot"])>>, "none")
             ELSE Outcome(<<Add("verified_implementations",
                     [component |-> "Gate imports",
                      imports |-> gate_imports])>>, "none")

\* check_gate_wiring; gate_files is the listing of *gate*.py in the root.
check_gate_wiring(t, gate_files) ==
    IF Len(gate_files) = 0
    THEN Outcome(<<Add("missing", [component |-> "Gate infrastructure",
                                   reason |-> "No gate files found"])>>, "none")
    ELSE IF t.boot.kind = "absent" THEN Outcome(<<>>, "none")
    ELSE IF AnalyzerRaises(t.boot) THEN Outcome(<<>>, "UnicodeDecodeError")
    ELSE LET imports == extract_imports(t.boot)
             gate_imports == SelectSeq(imports, LAMBDA imp : "gate" \in Parts(Lower(imp)))
         IN  IF Len(gate_imports) = 0
             THEN Outcome(<<Add("present_but_unwired",
                     [component |-> "Gate files",
                      count |-> Len(gate_files),
                      files |-> SubSeq(gate_files, 1,
                                       IF Len(gate_files) < GateSampleSize
                                       THEN Len(gate_files) ELSE GateSampleSize),
                      reason |-> "Gate files exist but are not imported by BOOT_METABLOOMS.py",
                      evidence |-> "Found " \o ToString(Len(gate_files))
                                   \o " gate files, 0 gate imports in boot"])>>, "none")
             ELSE Outcome(<<Add("verified_implementations",
                     [component |-> "Gate imports",
                      imports |-> gate_imports])>>, "none")

\* The sources of the *.py files in the root that read_text can read.
RootPySources(t) ==
    (IF t.boot.kind = "text" THEN {t.boot.src} ELSE {})
    \cup (IF t.run THEN {<<>>} ELSE {})
    \cup (IF t.gates > 0 THEN {<<>>} ELSE {})
    \cup {e.src : e \in {x \in t.extras : x.dir = ""}}

\* check_schema_usage; schema_files is the listing of schemas/*.json.
check_schema_usage(t, schema_files) ==
    IF t.schemas < 0
    THEN Outcome(<<Add("missing", [component |-> "Schema directory",
                                   reason |-> "schemas/ directory not found"])>>, "none")
    ELSE LET validates_schema ==
                 \E src \in RootPySources(t) :
                     Contains(src, "jsonschema") \/ Contains(src, "validate(")
         IN  IF Len(schema_files) > 0 /\ ~validates_schema
             THEN Outcome(<<Add("present_but_unwired",
                     [component |-> "JSON schemas",
                      count |-> Len(schema_files),
                      files |-> schema_files,
                      reason |-> "Schema files exist but no validation code found",
                      evidence |-> ToString(Len(schema_files))
                                   \o " schemas, 0 jsonschema imports"])>>, "none")
             ELSE Outcome(<<>>, "none")

\* The path recorded when no LEDGER_PATH assignment matches.
DefaultLedgerPath == "governance/epistemic_ledger.ndjson"

\* group(1) of re.search(r'LEDGER_PATH\s*=\s*.+?["\'](.+?)["\']', line), "" when
\* the line has no match.
LedgerPathIn(frag) ==
    CASE frag = "LEDGER_PATH = 'boot.ndjson'" -> "boot.ndjson"
      [] frag = "LEDGER_PATH='boot.ndjson'"   -> ""
      [] OTHER                                -> ""

\* The path when the LEDGER_PATH assignment is not looked for.
LedgerPathAlwaysDefault(source) == DefaultLedgerPath

\* The path of the first matching line of the source, else the default.
LedgerPathOf(source) ==
    IF \E i \in 1..Len(source) : LedgerPathIn(source[i]) # ""
    THEN LedgerPathIn(source[CHOOSE i \in 1..Len(source) :
                                 /\ LedgerPathIn(source[i]) # ""
                                 /\ \A k \in 1..(i - 1) : LedgerPathIn(source[k]) = ""])
    ELSE DefaultLedgerPath

\* check_ledger_integration
check_ledger_integration(t) ==
    IF t.boot.kind = "absent" THEN Outcome(<<>>, "none")
    ELSE IF t.boot.kind = "binary" THEN Outcome(<<>>, "UnicodeDecodeError")
    ELSE LET source == t.boot.src
             has_ledger_write == /\ ContainsLower(source, "ledger")
                                 /\ (Contains(source, "open(") \/ Contains(source, ".write("))
             has_append_mode == Contains(source, "\"a\"") \/ Contains(source, "'a'")
         IN  IF has_ledger_write /\ has_append_mode
             THEN Outcome(<<Add("verified_implementations",
                     [component |-> "Ledger integration",
                      detail |-> "Boot writes to ledger in append mode",
                      path |-> LedgerPathOf(source),
                      evidence |-> "Source contains ledger open in append mode"])>>, "none")
             ELSE Outcome(<<Add("missing",
                     [component |-> "Ledger integration",
                      reason |-> "No evidence of ledger writes in boot"])>>, "none")

\* check_index_usage as it would be did it file an index that is not a JSON
\* object under spec_conflicts.
check_index_usage_conflict(t) ==
    IF t.index.kind = "absent"
    THEN Outcome(<<Add("missing", [component |-> "RUNTIME_INDEX.json",
                                   reason |-> "File not found in bundle"])>>, "none")
    ELSE Outcome(<<Add("spec_conflicts", [component |-> "RUNTIME_INDEX.json",
                                          reason |-> "Index is not a JSON object"])>>, "none")

\* check_index_usage
check_index_usage(t) ==
    IF t.index.kind = "absent"
    THEN Outcome(<<Add("missing", [component |-> "RUNTIME_INDEX.json",
                                   reason |-> "File not found in bundle"])>>, "none")
    ELSE IF t.index.kind = "invalid"
    THEN Outcome(<<Add("missing", [component |-> "RUNTIME_INDEX.json",
                                   reason |-> "Invalid JSON: " \o JsonErrorText])>>, "none")
    ELSE IF t.index.kind # "object"
    THEN Outcome(<<>>, "AttributeError")
    ELSE Outcome(<<Add("present_but_unwired",
                    [component |-> "RUNTIME_INDEX.json",
                     size_bytes |-> t.index.size,
                     top_level_keys |-> t.index.keys,
                     reason |-> "Index exists but is not referenced by BOOT_METABLOOMS.py",
                     evidence |-> "File exists, not loaded by boot"])>>, "none")

\* The matching files when the text is searched as written, not lowered.
CsrgFileNamesCaseSensitive(t) ==
    (IF t.boot.kind = "text" /\ Contains(t.boot.src, "csrg")
     THEN {"BOOT_METABLOOMS.py"} ELSE {})
    \cup {e.name : e \in {x \in t.extras : Contains(x.src, "csrg")}}

\* The names of the *.py files, at any depth, whose lowered text has "csrg".
CsrgFileNames(t) ==
    (IF t.boot.kind = "text" /\ ContainsLower(t.boot.src, "csrg")
     THEN {"BOOT_METABLOOMS.py"} ELSE {})
    \cup {e.name : e \in {x \in t.extras : ContainsLower(x.src, "csrg")}}

\* len(py_files) for the glob **/*.py.
PyFileCount(t) ==
    (IF t.boot.kind = "absent" THEN 0 ELSE 1) + (IF t.run THEN 1 ELSE 0)
    + t.gates + Cardinality(t.extras)

\* check_csrg_presence; csrg_files lists the matching files in glob order.
check_csrg_presence(t, csrg_files) ==
    IF Len(csrg_files) = 0
    THEN Outcome(<<Add("missing",
                    [component |-> "CSRG gate",
                     reason |-> "No files contain 'csrg' or 'CSRG'",
                     evidence |-> "Searched " \o ToString(PyFileCount(t))
                                  \o " Python files, 0 matches"])>>, "none")
    ELSE Outcome(<<Add("unverifiable",
                    [component |-> "CSRG gate",
                     reason |-> "Files mention CSRG but wiring unclear without execution",
                     files |-> csrg_files])>>, "none")

\* check_manifest_loading
check_manifest_loading(t) ==
    IF t.manifest.kind = "absent"
    THEN Outcome(<<Add("missing", [component |-> "boot_manifest.json",
                                   reason |-> "File not found in bundle root"])>>, "none")
    ELSE IF t.manifest.kind = "invalid"
    THEN Outcome(<<Add("missing", [component |-> "boot_manifest.json",
                                   reason |-> "Invalid JSON: " \o JsonErrorText])>>, "none")
    ELSE IF t.manifest.kind # "object"
    THEN Outcome(<<>>, "AttributeError")
    ELSE IF t.boot.kind = "absent" THEN Outcome(<<>>, "none")
    ELSE IF AnalyzerRaises(t.boot) THEN Outcome(<<>>, "UnicodeDecodeError")
    ELSE IF ~loads_file(t.boot, "boot_manifest.json")
    THEN Outcome(<<Add("present_but_unwired",
                    [component |-> "boot_manifest.json",
                     preflight_count |-> Len(t.manifest.preflight),
                     preflight_gates |-> t.manifest.preflight,
                     reason |-> "Manifest exists with preflight gates, but BOOT_METABLOOMS.py never loads it",
                     evidence |-> "Source analysis: 0 references to 'boot_manifest'"])>>, "none")
    ELSE Outcome(<<Add("verified_implementations",
                    [component |-> "boot_manifest.json loading",
                     detail |-> "Boot references manifest file"])>>, "none")

\* ------------------------------------------------------------- extraction
\* ZipFile.extractall writes each member under extract_dir at its name with
\* the empty, "." and ".." components removed.
MemberTarget(name) ==
    SelectSeq(name, LAMBDA c : c \notin {"", ".", ".."})

\* Whether a path, taken relative to extract_dir, lies outside it: it is
\* absolute (it starts with the empty component) or climbs above the root.
RECURSIVE Climbs(_, _)
Climbs(path, depth) ==
    IF path = <<>> THEN FALSE
    ELSE IF Head(path) = ".." THEN depth = 0 \/ Climbs(Tail(path), depth - 1)
    ELSE IF Head(path) \in {"", "."} THEN Climbs(Tail(path), depth)
    ELSE Climbs(Tail(path), depth + 1)

EscapesRoot(path) ==
    path # <<>> /\ (Head(path) = "" \/ Climbs(path, 0))

\* ---------------------------------------------------------------- actions
\* The other programs have not been started.
NoSource == [tree |-> [kind |-> "None"], error |-> "not started"]
NoSurface == [call |-> "none"]
ProbeIdle == boot_source = NoSource /\ surface = NoSurface

NoSandbox == [found |-> FALSE]
NotBooting == [pc |-> "idle"]
SafeIdle == sandbox = NoSandbox /\ safeboot = NotBooting

NoProject == [mode |-> "none"]
NotBuilding == [pc |-> "idle"]
BuildIdle == project = NoProject /\ builder = NotBuilding

NoLedger == [exists |-> FALSE, content |-> <<>>]
NotGenerating == [pc |-> "idle"]
LedgerIdle == LEDGER = NoLedger /\ generator = NotGenerating

OthersIdle == ProbeIdle /\ SafeIdle /\ BuildIdle /\ LedgerIdle

InitWith(archives) ==
    /\ bundle \in archives
    /\ pc = "start"
    /\ ws = "none"
    /\ tree = NoTree
    /\ written = {}
    /\ report = EmptyReport
    /\ exc = "none"
    /\ output = NoOutput
    /\ log = <<>>
    /\ earlier = <<>>
    /\ OthersIdle

Init == InitWith(Bundles)

\* with tempfile.TemporaryDirectory() as tmpdir: self.extract_dir = Path(tmpdir)
EnterWorkspace ==
    /\ pc = "start"
    /\ ws' = "live"
    /\ log' = Append(log, Event("acquire", "", "", ""))
    /\ pc' = "extract"
    /\ UNCHANGED <<bundle, tree, written, report, exc, output, earlier, others>>

\* ExtractBundle as it would be were a failure of ZipFile or extractall
\* swallowed: run goes on to the checks over an empty directory.
ExtractBundleIgnoringFailure ==
    /\ pc = "extract"
    /\ tree' = IF bundle.readable THEN bundle.tree ELSE NoTree
    /\ written' = IF bundle.readable THEN {MemberTarget(bundle.member)} ELSE written
    /\ exc' = "none"
    /\ pc' = Checks[1]
    /\ log' = Append(log, Event("extract", "", "", ""))
    /\ UNCHANGED <<bundle, ws, report, output, earlier, others>>

\* with zipfile.ZipFile(self.zip_path, 'r') as zf: zf.extractall(self.extract_dir)
ExtractBundle ==
    /\ pc = "extract"
    /\ IF bundle.readable
       THEN /\ tree' = bundle.tree
            /\ written' = {MemberTarget(bundle.member)}
            /\ exc' = "none"
            /\ pc' = Checks[1]
       ELSE /\ exc' = "BadZipFile"
            /\ pc' = "exit"
            /\ UNCHANGED <<tree, written>>
    /\ log' = Append(log, Event("extract", "", "", ""))
    /\ UNCHANGED <<bundle, ws, report, output, earlier, others>>

\* One call self.check_...() of run: the findings are appended; an exception
\* leaves the with block, a return goes on to the next call.
CallCheck(c, out) ==
    /\ pc = c
    /\ report' = Appended(report, out.adds)
    /\ log' = log \o <<Event("check", c, "", "")>>
                  \o [i \in 1..Len(out.adds) |->
                        Event("add", c, out.adds[i].bucket, out.adds[i].finding.component)]
    /\ exc' = out.exc
    /\ pc' = IF out.exc = "none" THEN AfterCheck(c) ELSE "exit"
    /\ UNCHANGED <<bundle, ws, tree, written, output, earlier, others>>

BootStructure == CallCheck("check_boot_structure", check_boot_structure(tree))

DeltaEnforcement == CallCheck("check_delta_enforcement", check_delta_enforcement(tree))

GateWiring ==
    \E gate_files \in GateListings(tree.gates) :
        CallCheck("check_gate_wiring", check_gate_wiring(tree, gate_files))

SchemaUsage ==
    \E schema_files \in Listings({SchemaName(i) : i \in 1..tree.schemas}) :
        CallCheck("check_schema_usage", check_schema_usage(tree, schema_files))

LedgerIntegration == CallCheck("check_ledger_integration", check_ledger_integration(tree))

IndexUsage == CallCheck("check_index_usage", check_index_usage(tree))

CsrgPresence ==
    \E csrg_files \in Listings(CsrgFileNames(tree)) :
        CallCheck("check_csrg_presence", check_csrg_presence(tree, csrg_files))

ManifestLoading == CallCheck("check_manifest_loading", check_manifest_loading(tree))

\* ExitWorkspace as it would be had run created the directory with mkdtemp and
\* removed it at the end of the block only: an exception skips the removal.
ExitWorkspaceOnReturnOnly ==
    /\ pc = "exit"
    /\ ws' = IF exc = "none" THEN "deleted" ELSE ws
    /\ tree' = IF exc = "none" THEN NoTree ELSE tree
    /\ log' = IF exc = "none" THEN Append(log, Event("delete", "", "", "")) ELSE log
    /\ pc' = IF exc = "none" THEN "returned" ELSE "raised"
    /\ UNCHANGED <<bundle, written, report, exc, output, earlier, others>>

\* TemporaryDirectory.__exit__: the workspace is removed whether the block
\* ended normally or by an exception, which then goes on to the caller.
ExitWorkspace ==
    /\ pc = "exit"
    /\ ws' = "deleted"
    /\ tree' = NoTree
    /\ log' = Append(log, Event("delete", "", "", ""))
    /\ pc' = IF exc = "none" THEN "returned" ELSE "raised"
    /\ UNCHANGED <<bundle, written, report, exc, output, earlier, others>>

\* ReportDict as it would be had audit_bundle returned the report's fields
\* under their own names (dataclasses.asdict): the last key is "unverifiable".
ReportDictByFieldName(rep) ==
    [b \in BucketSet |-> rep[b]]

\* The dictionary audit_bundle builds from the report run returned.
ReportDict(rep) ==
    [ verified_implementations      |-> rep.verified_implementations,
      present_but_unwired           |-> rep.present_but_unwired,
      missing                       |-> rep.missing,
      spec_conflicts                |-> rep.spec_conflicts,
      unverifiable_with_given_tools |-> rep.unverifiable ]

\* audit_bundle: return {...} once run has returned.
AuditBundleReturn ==
    /\ pc = "returned"
    /\ output' = ReportDict(report)
    /\ pc' = "done"
    /\ UNCHANGED <<bundle, ws, tree, written, report, exc, log, earlier, others>>

Next ==
    \/ EnterWorkspace
    \/ ExtractBundle
    \/ BootStructure
    \/ DeltaEnforcement
    \/ GateWiring
    \/ SchemaUsage
    \/ LedgerIntegration
    \/ IndexUsage
    \/ CsrgPresence
    \/ ManifestLoading
    \/ ExitWorkspace
    \/ AuditBundleReturn

Spec == Init /\ [][Next]_vars

\* ------------------------------------------------- further specifications
\* A tree with only the boot file, the run file and gate files.
PlainTree(boot, run, gates) ==
    [ boot |-> boot, run |-> run, gates |-> gates, extras |-> {},
      schemas |-> -1, index |-> JsonAbsent, manifest |-> JsonAbsent ]

Archive(t) == [readable |-> TRUE, member |-> <<"docs", "x">>, tree |-> t]

\* Bundles for the gate check: few, one or many gate files, and boot files
\* with and without imports of gate modules.
GateBootFiles ==
    { BootAbsent, BootText(<<>>), BootText(<<"import json">>),
      BootText(<<"import gate_csrg">>), BootText(<<"import MyGate">>),
      BootText(<<"import json", "import gate_csrg", "import MyGate">>),
      BootText(<<"import gate_csrg", "def (:">>) }

GateBundles ==
    { Archive(PlainTree(b, r, g)) :
        b \in GateBootFiles, r \in BOOLEAN, g \in {0, 1, BigGateFiles} }

SpecGates == InitWith(GateBundles) /\ [][Next]_vars

\* Zero or one of the fragments of S.
Opt(S) == {<<>>} \cup {<<f>> : f \in S}

\* Boot sources for the textual checks: every combination of the needles of
\* the delta check, of the ledger check, and of the two file references.
DeltaSources ==
    { a \o b \o c \o d :
        a \in Opt({"latest.json"}), b \in Opt({"manifests"}),
        c \in Opt({"delta", "DELTA"}), d \in Opt({"sha256", "SHA256"}) }

LedgerSources ==
    { a \o b \o c :
        a \in Opt({"ledger", "LEDGER", "LEDGER_PATH = 'boot.ndjson'",
                   "LEDGER_PATH='boot.ndjson'"}),
        b \in Opt({"open(", ".write("}),
        c \in Opt({"mode = \"a\"", "mode = 'a'"}) }

ReferenceSources ==
    { a \o b : a \in Opt({"boot_manifest.json"}), b \in Opt({"RUNTIME_INDEX.json"}) }

TextBundles ==
    { Archive([PlainTree(b, TRUE, 0) EXCEPT !.index = x, !.manifest = m]) :
        b \in {BootAbsent} \cup {BootText(src) :
                  src \in DeltaSources \cup LedgerSources \cup ReferenceSources},
        x \in IndexFiles, m \in ManifestFiles }

SpecBoot == InitWith(TextBundles) /\ [][Next]_vars

\* A second call of audit_bundle on the same archive: a new auditor, a new
\* report, a new temporary directory.
RunAgain ==
    /\ pc = "done"
    /\ earlier = <<>>
    /\ earlier' = <<output>>
    /\ pc' = "start"
    /\ ws' = "none"
    /\ tree' = NoTree
    /\ written' = {}
    /\ report' = EmptyReport
    /\ exc' = "none"
    /\ output' = NoOutput
    /\ log' = <<>>
    /\ UNCHANGED <<bundle, others>>

TwoRunBundles ==
    { Archive([PlainTree(b, TRUE, g) EXCEPT !.extras = e, !.schemas = n]) :
        b \in {BootAbsent, BootText(<<"csrg">>), BootText(<<"import gate_csrg">>)},
        g \in {0, MaxGateFiles}, e \in SUBSET ExtraPyFiles, n \in {-1, MaxSchemaFiles} }

NextTwoRuns == Next \/ RunAgain

SpecTwoRuns == InitWith(TwoRunBundles) /\ [][NextTwoRuns]_vars

\* ------------------------------------------------ boot_capability_probe.py
\* The longest module body tried: a source is a sequence of at most this
\* many statements of the pool below.
MaxStmts == 2

\* A literal: an int, a str, or no literal at all.
NoLit == [t |-> "none", i |-> 0, s |-> ""]
IntLit(i) == [t |-> "int", i |-> i, s |-> ""]
StrLit(s) == [t |-> "str", i |-> 0, s |-> s]

\* A node of the tree ast.parse returns: its class, its identifier (Name.id,
\* Attribute.attr, FunctionDef.name, arg.arg, alias.name, ImportFrom.module),
\* its Constant.value, its lineno, and its child nodes in the order
\* ast.iter_child_nodes yields them; split is the number of leading children
\* that are the targets of an Assign.  The expression-context nodes (Load,
\* Store) are left out: no extractor looks at them.
Node(kind, id, lit, line, split, children) ==
    [kind |-> kind, id |-> id, lit |-> lit, line |-> line, split |-> split,
     children |-> children]

Name(id, l) == Node("Name", id, NoLit, l, 0, <<>>)
Constant(lit, l) == Node("Constant", "", lit, l, 0, <<>>)
Call(func, args, l) == Node("Call", "", NoLit, l, 0, <<func>> \o args)
Attribute(value, attr, l) == Node("Attribute", attr, NoLit, l, 0, <<value>>)
Expr(value, l) == Node("Expr", "", NoLit, l, 0, <<value>>)
Assign(targets, value, l) ==
    Node("Assign", "", NoLit, l, Len(targets), targets \o <<value>>)
IfStmt(test, body, l) == Node("If", "", NoLit, l, 0, <<test>> \o body)
Pass(l) == Node("Pass", "", NoLit, l, 0, <<>>)
FunctionDef(name, params, body, l) ==
    Node("FunctionDef", name, NoLit, l, 0,
         <<Node("arguments", "", NoLit, 0, 0,
                [i \in 1..Len(params) |-> Node("arg", params[i], NoLit, l, 0, <<>>)])>>
         \o body)
Import(name, l) ==
    Node("Import", "", NoLit, l, 0, <<Node("alias", name, NoLit, l, 0, <<>>)>>)
ImportFrom(module, name, l) ==
    Node("ImportFrom", module, NoLit, l, 0, <<Node("alias", name, NoLit, l, 0, <<>>)>>)
JoinedStr(text, var, l) ==
    Node("JoinedStr", "", NoLit, l, 0,
         <<Constant(StrLit(text), l),
           Node("FormattedValue", "", NoLit, l, 0, <<Name(var, l)>>)>>)
Module(body) == Node("Module", "", NoLit, 0, 0, body)

\* The statements sources are made of, each by a name.
StatementNames ==
    { "OUT_PATH = 'a'", "outDIR = 'b'", "MyPATH = 'c'", "NAME = 'e'",
      "A, LOG_DIR = 1, 2",
      "_die(2, 'bad')", "_die(3, f'x{y}')", "_die(4, msg)", "_die(5)",
      "_die('x', 'm')", "_die(6, 7)", "_die(2, 'shallow')",
      "def check(p): if p: _die(2, 'deep')",
      "def outer(): def inner(a): pass",
      "def later(): pass",
      "if c: data = p.read_text()", "f = open(q)",
      "import json", "from os import path" }

\* The number of lines a statement takes.
Height(stmt) ==
    CASE stmt = "def check(p): if p: _die(2, 'deep')" -> 3
      [] stmt = "def outer(): def inner(a): pass"     -> 3
      [] stmt = "if c: data = p.read_text()"          -> 2
      [] OTHER                                        -> 1

\* _die(args) as an expression statement on line l.
DieCall(args, l) == Expr(Call(Name("_die", l), args, l), l)

\* ast.parse of a statement that starts on line l.
Statement(stmt, l) ==
    CASE stmt = "OUT_PATH = 'a'" -> Assign(<<Name("OUT_PATH", l)>>, Constant(StrLit("a"), l), l)
      [] stmt = "outDIR = 'b'"   -> Assign(<<Name("outDIR", l)>>, Constant(StrLit("b"), l), l)
      [] stmt = "MyPATH = 'c'"   -> Assign(<<Name("MyPATH", l)>>, Constant(StrLit("c"), l), l)
      [] stmt = "NAME = 'e'"     -> Assign(<<Name("NAME", l)>>, Constant(StrLit("e"), l), l)
      [] stmt = "A, LOG_DIR = 1, 2" ->
           Assign(<<Node("Tuple", "", NoLit, l, 0, <<Name("A", l), Name("LOG_DIR", l)>>)>>,
                  Node("Tuple", "", NoLit, l, 0,
                       <<Constant(IntLit(1), l), Constant(IntLit(2), l)>>), l)
      [] stmt = "_die(2, 'bad')" ->
           DieCall(<<Constant(IntLit(2), l), Constant(StrLit("bad"), l)>>, l)
      [] stmt = "_die(3, f'x{y}')" ->
           DieCall(<<Constant(IntLit(3), l), JoinedStr("x", "y", l)>>, l)
      [] stmt = "_die(4, msg)"   -> DieCall(<<Constant(IntLit(4), l), Name("msg", l)>>, l)
      [] stmt = "_die(5)"        -> DieCall(<<Constant(IntLit(5), l)>>, l)
      [] stmt = "_die('x', 'm')" ->
           DieCall(<<Constant(StrLit("x"), l), Constant(StrLit("m"), l)>>, l)
      [] stmt = "_die(6, 7)"     ->
           DieCall(<<Constant(IntLit(6), l), Constant(IntLit(7), l)>>, l)
      [] stmt = "_die(2, 'shallow')" ->
           DieCall(<<Constant(IntLit(2), l), Constant(StrLit("shallow"), l)>>, l)
      [] stmt = "def check(p): if p: _die(2, 'deep')" ->
           FunctionDef("check", <<"p">>,
               <<IfStmt(Name("p", l + 1),
                        <<DieCall(<<Constant(IntLit(2), l + 2),
                                    Constant(StrLit("deep"), l + 2)>>, l + 2)>>,
                        l + 1)>>, l)
      [] stmt = "def outer(): def inner(a): pass" ->
           FunctionDef("outer", <<>>,
               <<FunctionDef("inner", <<"a">>, <<Pass(l + 2)>>, l + 1)>>, l)
      [] stmt = "def later(): pass" -> FunctionDef("later", <<>>, <<Pass(l)>>, l)
      [] stmt = "if c: data = p.read_text()" ->
           IfStmt(Name("c", l),
                  <<Assign(<<Name("data", l + 1)>>,
                           Call(Attribute(Name("p", l + 1), "read_text", l + 1), <<>>, l + 1),
                           l + 1)>>, l)
      [] stmt = "f = open(q)" ->
           Assign(<<Name("f", l)>>, Call(Name("open", l), <<Name("q", l)>>, l), l)
      [] stmt = "import json" -> Import("json", l)
      [] stmt = "from os import path" -> ImportFrom("os", "path", l)

\* The body of the module whose statements are stmts, the first on line l.
RECURSIVE Body(_, _)
Body(stmts, l) ==
    IF stmts = <<>> THEN <<>>
    ELSE <<Statement(Head(stmts), l)>> \o Body(Tail(stmts), l + Height(Head(stmts)))

\* The sequences of at most n statements.
RECURSIVE StatementLists(_)
StatementLists(n) ==
    IF n = 0 THEN {<<>>}
    ELSE StatementLists(n - 1)
         \cup {Append(ss, st) : ss \in {x \in StatementLists(n - 1) : Len(x) = n - 1},
                                st \in StatementNames}

\* str(SyntaxError) of the source that does not parse.
ParseErrorText == "invalid syntax (<unknown>, line 1)"

\* BootCapabilityExtractor.__init__: self.tree is the parsed module, or None
\* with self.error set when ast.parse raises SyntaxError.
None == [kind |-> "None"]
Unparsed == [tree |-> None, error |-> ParseErrorText]
Parsed(stmts) == [tree |-> Module(Body(stmts, 1)), error |-> ""]

BootCapabilitySources ==
    {Unparsed} \cup {Parsed(stmts) : stmts \in StatementLists(MaxStmts)}

\* ast.walk: breadth-first, a deque of nodes to which the children of each
\* node taken from the left are added on the right.
RECURSIVE WalkQueue(_)
WalkQueue(todo) ==
    IF todo = <<>> THEN <<>>
    ELSE <<Head(todo)>> \o WalkQueue(Tail(todo) \o Head(todo).children)

walk(root) == WalkQueue(<<root>>)

\* The func of a Call node and its positional arguments.
FuncOf(call) == call.children[1]
ArgsOf(call) == Tail(call.children)

\* for node in ast.walk(self.tree): AttributeError when self.tree is None.
Raised(method) == [call |-> method, raised |-> "AttributeError", value |-> <<>>]
Returned(method, value) == [call |-> method, raised |-> "none", value |-> value]

\* ast.unparse of the expressions the statements hold.
unparse(node) ==
    CASE node.kind = "Constant" /\ node.lit.t = "str" -> "'" \o node.lit.s \o "'"
      [] node.kind = "Constant" /\ node.lit.t = "int" -> ToString(node.lit.i)
      [] node.kind = "Name"                          -> node.id
      [] node.kind = "Tuple"                         -> "(1, 2)"
      [] node.kind = "Call"                          -> "p.read_text()"
      [] OTHER                                       -> "<unparseable>"

\* The place of a string in sorted order, among the strings of the statements.
Rank(str) ==
    CASE str = "a" -> 1 [] str = "b" -> 2 [] str = "bad" -> 3 [] str = "c" -> 4
      [] str = "deep" -> 5 [] str = "e" -> 6 [] str = "json" -> 7 [] str = "m" -> 8
      [] str = "os" -> 9 [] str = "shallow" -> 10 [] str = "x" -> 11

\* sorted(set(strings))
RECURSIVE Sorted(_)
Sorted(S) ==
    IF S = {} THEN <<>>
    ELSE LET least == CHOOSE x \in S : \A y \in S : Rank(x) <= Rank(y)
         IN  <<least>> \o Sorted(S \ {least})

\* d[key] = value on a dict kept as its items in insertion order: a key
\* already there keeps its place and gets the new value.
DictSet(d, key, value) ==
    IF \E i \in 1..Len(d) : d[i].key = key
    THEN [i \in 1..Len(d) |-> IF d[i].key = key THEN [key |-> key, value |-> value] ELSE d[i]]
    ELSE Append(d, [key |-> key, value |-> value])

\* str.isupper, and `needle in name`, for the identifiers of the statements.
isupper(id) == id \in {"OUT_PATH", "NAME", "A", "LOG_DIR"}

NameParts(id) ==
    CASE id = "OUT_PATH" -> {"PATH"}
      [] id = "MyPATH"   -> {"PATH"}
      [] id = "outDIR"   -> {"DIR"}
      [] id = "LOG_DIR"  -> {"DIR"}
      [] OTHER           -> {}

\* The loop of an extractor: step folded over the nodes in walk order.
RECURSIVE Fold(_, _, _)
Fold(step(_, _), acc, nodes) ==
    IF nodes = <<>> THEN acc ELSE Fold(step, step(acc, Head(nodes)), Tail(nodes))

\* extract_file_reads
extract_file_reads(src) ==
    IF src.tree.kind = "None" THEN Raised("extract_file_reads")
    ELSE LET step(reads, node) ==
                 LET first == IF /\ node.kind = "Call"
                                 /\ FuncOf(node).kind = "Attribute"
                                 /\ FuncOf(node).id \in {"read_text", "read_bytes", "open"}
                                 /\ FuncOf(node).children[1].kind = "Name"
                              THEN <<[operation |-> FuncOf(node).id,
                                      variable |-> FuncOf(node).children[1].id,
                                      line |-> node.line]>>
                              ELSE <<>>
                     second == IF /\ node.kind = "Call"
                                  /\ FuncOf(node).kind = "Name"
                                  /\ FuncOf(node).id = "open"
                                  /\ ArgsOf(node) # <<>>
                               THEN <<[operation |-> "open",
                                       argument |-> unparse(ArgsOf(node)[1]),
                                       line |-> node.line]>>
                               ELSE <<>>
                 IN  reads \o first \o second
         IN  Returned("extract_file_reads", Fold(step, <<>>, walk(src.tree)))

\* extract_imports
extract_probe_imports(src) ==
    IF src.tree.kind = "None" THEN Raised("extract_imports")
    ELSE LET step(imports, node) ==
                 IF node.kind = "Import"
                 THEN imports \cup {node.children[i].id : i \in 1..Len(node.children)}
                 ELSE IF node.kind = "ImportFrom" /\ node.id # ""
                 THEN imports \cup {node.id}
                 ELSE imports
         IN  Returned("extract_imports", Sorted(Fold(step, {}, walk(src.tree))))

\* One target of extract_path_constants.
PathTarget(paths, target, value) ==
    IF /\ target.kind = "Name"
       /\ ((isupper(target.id) /\ "PATH" \in NameParts(target.id))
           \/ "DIR" \in NameParts(target.id))
    THEN DictSet(paths, target.id, unparse(value))
    ELSE paths

\* extract_path_constants
extract_path_constants(src) ==
    IF src.tree.kind = "None" THEN Raised("extract_path_constants")
    ELSE LET step(paths, node) ==
                 IF node.kind = "Assign"
                 THEN LET targets == SubSeq(node.children, 1, node.split)
                          value == node.children[node.split + 1]
                          each(acc, target) == PathTarget(acc, target, value)
                      IN  Fold(each, paths, targets)
                 ELSE paths
         IN  Returned("extract_path_constants", Fold(step, <<>>, walk(src.tree)))

\* Whether node is a call of the plain name _die.
IsDieCall(node) ==
    node.kind = "Call" /\ FuncOf(node).kind = "Name" /\ FuncOf(node).id = "_die"

\* The items of extract_function_defs on a parsed tree.
FunctionDefsOf(root) ==
    LET step(functions, node) ==
            IF node.kind = "FunctionDef"
            THEN LET args == node.children[1].children
                     inside == walk(node)
                 IN  Append(functions,
                            [name |-> node.id,
                             params |-> [i \in 1..Len(args) |-> args[i].id],
                             line |-> node.line,
                             has_fail_closed |->
                                 \E i \in 1..Len(inside) : IsDieCall(inside[i])])
            ELSE functions
    IN  Fold(step, <<>>, walk(root))

\* extract_function_defs
extract_function_defs(src) ==
    IF src.tree.kind = "None" THEN Raised("extract_function_defs")
    ELSE Returned("extract_function_defs", FunctionDefsOf(src.tree))

\* The names extract_external_calls takes for built in.
stdlib ==
    {"print", "open", "len", "sorted", "list", "dict", "set", "str", "int",
     "float", "isinstance", "hasattr", "getattr"}

\* extract_external_calls
extract_external_calls(src) ==
    IF src.tree.kind = "None" THEN Raised("extract_external_calls")
    ELSE LET defs == FunctionDefsOf(src.tree)
             defined == {defs[i].name : i \in 1..Len(defs)}
             step(unique, node) ==
                 IF /\ node.kind = "Call"
                    /\ FuncOf(node).kind = "Name"
                    /\ FuncOf(node).id \notin defined \cup stdlib
                    /\ ~\E i \in 1..Len(unique) :
                          unique[i].function = FuncOf(node).id /\ unique[i].line = node.line
                 THEN Append(unique, [function |-> FuncOf(node).id, line |-> node.line])
                 ELSE unique
         IN  Returned("extract_external_calls", Fold(step, <<>>, walk(src.tree)))

\* extract_string_literals
extract_string_literals(src) ==
    IF src.tree.kind = "None" THEN Raised("extract_string_literals")
    ELSE LET step(strings, node) ==
                 IF node.kind = "Constant" /\ node.lit.t = "str"
                 THEN strings \cup {node.lit.s} ELSE strings
         IN  Returned("extract_string_literals", Sorted(Fold(step, {}, walk(src.tree))))

\* extract_exit_codes: the dict's items, each key and each message a literal.
extract_exit_codes(src) ==
    IF src.tree.kind = "None" THEN Raised("extract_exit_codes")
    ELSE LET step(exits, node) ==
                 IF /\ IsDieCall(node)
                    /\ Len(ArgsOf(node)) >= 2
                    /\ ArgsOf(node)[1].kind = "Constant"
                 THEN LET code == ArgsOf(node)[1].lit
                          msg == IF ArgsOf(node)[2].kind = "Constant"
                                 THEN ArgsOf(node)[2].lit
                                 ELSE IF ArgsOf(node)[2].kind = "JoinedStr"
                                 THEN StrLit("<f-string>")
                                 ELSE StrLit("<dynamic>")
                      IN  DictSet(exits, code, msg)
                 ELSE exits
         IN  Returned("extract_exit_codes", Fold(step, <<>>, walk(src.tree)))

\* extract_all
extract_all(src) ==
    IF src.tree.kind = "None"
    THEN Returned("extract_all", [error |-> src.error])
    ELSE Returned("extract_all",
             [file_reads |-> extract_file_reads(src).value,
              imports |-> extract_probe_imports(src).value,
              path_constants |-> extract_path_constants(src).value,
              function_definitions |-> extract_function_defs(src).value,
              external_calls |-> extract_external_calls(src).value,
              string_literals |-> extract_string_literals(src).value,
              fail_exit_codes |-> extract_exit_codes(src).value])


\* One call of a method on the extractor; the outcome replaces the last one.
CallExtractor(outcome) ==
    /\ surface.call # outcome.call
    /\ surface' = outcome
    /\ UNCHANGED <<boot_source, auditVars, safeVars, buildVars, ledgerVars>>

ExtractAll == CallExtractor(extract_all(boot_source))
ExtractFileReads == CallExtractor(extract_file_reads(boot_source))
ExtractImports == CallExtractor(extract_probe_imports(boot_source))
ExtractPathConstants == CallExtractor(extract_path_constants(boot_source))
ExtractFunctionDefs == CallExtractor(extract_function_defs(boot_source))
ExtractExternalCalls == CallExtractor(extract_external_calls(boot_source))
ExtractStringLiterals == CallExtractor(extract_string_literals(boot_source))
ExtractExitCodes == CallExtractor(extract_exit_codes(boot_source))

NextProbe ==
    \/ ExtractAll
    \/ ExtractFileReads
    \/ ExtractImports
    \/ ExtractPathConstants
    \/ ExtractFunctionDefs
    \/ ExtractExternalCalls
    \/ ExtractStringLiterals
    \/ ExtractExitCodes

\* The auditor has not been started.
AuditIdle ==
    /\ bundle = [readable |-> FALSE, member |-> <<"docs", "x">>, tree |-> NoTree]
    /\ pc = "idle"
    /\ ws = "none"
    /\ tree = NoTree
    /\ written = {}
    /\ report = EmptyReport
    /\ exc = "none"
    /\ output = NoOutput
    /\ log = <<>>
    /\ earlier = <<>>

\* A fresh extractor on one of the sources.
InitProbe ==
    /\ AuditIdle
    /\ SafeIdle
    /\ BuildIdle
    /\ LedgerIdle
    /\ boot_source \in BootCapabilitySources
    /\ surface = NoSurface

SpecProbe == InitProbe /\ [][NextProbe]_vars

\* ------------------------------------------------- scripts/CHATGPT_BOOT_SAFE.py
\* The names a manifest may give as its entrypoint: the usual one, one that
\* is not in the bundle, the empty string, a directory of the bundle, and an
\* absolute path of a file of the host.
EntrypointNames ==
    {"RUN_METABLOOMS.py", "RUN_X.py", "", "control_plane", "/etc/hostname"}

\* The files /mnt/data/mb_runtime may hold after extraction, beside the manifest.
RuntimeFileNames ==
    {"RUN_METABLOOMS.py", "control_plane/BOOT_STATE.json",
     "control_plane/boot_activator.py"}

\* boot_manifest.json in /mnt/data/mb_runtime after extraction.
SafeManifests ==
    {JsonAbsent, JsonInvalid, JsonArray, JsonObject(<<>>, "", <<>>)}
    \cup {JsonObject(<<"entrypoint">>, n, <<>>) : n \in EntrypointNames}

\* What main finds: whether a *.zip is in the working directory, whether it
\* extracts, the files of the runtime directory once it has, and whether the
\* booted process prints BOOT_OK.
Sandboxes ==
    [ found : BOOLEAN, extracts : BOOLEAN, manifest : SafeManifests,
      files : SUBSET RuntimeFileNames, boot_ok : BOOLEAN ]

\* dest / name: pathlib drops dest when name is absolute, and gives dest
\* itself when name is empty.
JoinDest(name) ==
    CASE name = "/etc/hostname" -> [inside |-> FALSE, rel |-> name]
      [] OTHER                  -> [inside |-> TRUE, rel |-> name]

\* Path.exists: a file of the runtime directory, one of its directories, the
\* directory itself, or a file of the host.
Exists(box, path) ==
    IF ~path.inside THEN path.rel = "/etc/hostname"
    ELSE \/ path.rel = ""
         \/ path.rel \in box.files
         \/ path.rel = "control_plane"
            /\ box.files \cap {"control_plane/BOOT_STATE.json",
                               "control_plane/boot_activator.py"} # {}

NoPath == [inside |-> FALSE, rel |-> ""]

\* main is called.
InitSafe ==
    /\ AuditIdle
    /\ ProbeIdle
    /\ BuildIdle
    /\ LedgerIdle
    /\ sandbox \in Sandboxes
    /\ safeboot = [pc |-> "find_bundle", entrypoint |-> NoPath, booted |-> <<>>,
                   warned |-> FALSE, rc |-> -1, exc |-> "none"]

\* main ends: return code rc, or exception e leaves it.
Return(rc) == [safeboot EXCEPT !.pc = "returned", !.rc = rc]
Raise(e) == [safeboot EXCEPT !.pc = "raised", !.exc = e]

\* Step 1: bundle = find_bundle(); return 1 when there is none.
find_bundle ==
    /\ safeboot.pc = "find_bundle"
    /\ safeboot' = IF sandbox.found THEN [safeboot EXCEPT !.pc = "extract_bundle"]
                   ELSE Return(1)
    /\ UNCHANGED <<sandbox, auditVars, probeVars, buildVars, ledgerVars>>

\* Step 2: extract_bundle(bundle, dest); every exception of the extraction
\* is caught and gives False, and main returns 1.
extract_bundle ==
    /\ safeboot.pc = "extract_bundle"
    /\ safeboot' = IF sandbox.extracts THEN [safeboot EXCEPT !.pc = "verify_entrypoint"]
                   ELSE Return(1)
    /\ UNCHANGED <<sandbox, auditVars, probeVars, buildVars, ledgerVars>>

\* Step 3: entrypoint = verify_entrypoint(dest); return 1 when it is None.
verify_entrypoint ==
    /\ safeboot.pc = "verify_entrypoint"
    /\ safeboot' =
         CASE sandbox.manifest.kind = "absent"  -> Return(1)
           [] sandbox.manifest.kind = "invalid" -> Raise("JSONDecodeError")
           [] sandbox.manifest.kind = "array"   -> Raise("AttributeError")
           [] OTHER ->
                LET entrypoint_name ==
                        IF \E i \in 1..Len(sandbox.manifest.keys) :
                               sandbox.manifest.keys[i] = "entrypoint"
                        THEN sandbox.manifest.entrypoint ELSE "RUN_METABLOOMS.py"
                    entrypoint_path == JoinDest(entrypoint_name)
                IN  IF ~Exists(sandbox, entrypoint_path) THEN Return(1)
                    ELSE [safeboot EXCEPT !.pc = "verify_critical_files",
                                          !.entrypoint = entrypoint_path]
    /\ UNCHANGED <<sandbox, auditVars, probeVars, buildVars, ledgerVars>>

\* Step 4: verify_critical_files(dest); a missing file only gives a warning.
verify_critical_files ==
    /\ safeboot.pc = "verify_critical_files"
    /\ safeboot' =
         [safeboot EXCEPT !.pc = "boot_metablooms",
                          !.warned = ~({"control_plane/BOOT_STATE.json",
                                        "control_plane/boot_activator.py"}
                                       \subseteq sandbox.files)]
    /\ UNCHANGED <<sandbox, auditVars, probeVars, buildVars, ledgerVars>>

\* Step 5: boot_metablooms(entrypoint, dest) runs the entrypoint; main
\* returns 1 unless BOOT_OK is printed, else 0.
boot_metablooms ==
    /\ safeboot.pc = "boot_metablooms"
    /\ safeboot' =
         [safeboot EXCEPT !.pc = "returned",
                          !.booted = Append(@, safeboot.entrypoint),
                          !.rc = IF sandbox.boot_ok THEN 0 ELSE 1]
    /\ UNCHANGED <<sandbox, auditVars, probeVars, buildVars, ledgerVars>>

NextSafe ==
    \/ find_bundle
    \/ extract_bundle
    \/ verify_entrypoint
    \/ verify_critical_files
    \/ boot_metablooms

SpecSafe == InitSafe /\ [][NextSafe]_vars

\* ------------------------------------------------- scripts/build_os_bundle.py
\* A file of a directory or of an archive is the sequence of the components of
\* its relative path.
REQUIRED_BOOT_FILES ==
    << <<"BOOT_METABLOOMS.py">>, <<"RUN_METABLOOMS.py">>, <<"boot_manifest.json">>,
       <<"boot_contract.json">>, <<"BOOT.md">>, <<"ENTRYPOINT.md">> >>

REQUIRED_CONTROL_PLANE_FILES ==
    << <<"control_plane", "BOOT_STATE.json">>, <<"control_plane", "boot_activator.py">>,
       <<"control_plane", "activation_registry.py">>,
       <<"control_plane", "mandatory_chat_capture.py">>,
       <<"control_plane", "bridge_map.json">>, <<"control_plane", "heuristic_matrix.json">> >>

Elements(list) == { list[i] : i \in DOMAIN list }

\* The registries copy_subsystems initialises under learning/.
LearningRegistries ==
    { <<"learning", bloom_type, "registry.json">> :
        bloom_type \in {"nanoblooms", "microblooms", "macroblooms"} }

\* scripts/build_manifest.json, which validate_os_bundle.py reads: the manifest
\* that names every boot file, and one that names only the two files the boot
\* itself opens.
BuildManifests ==
    { [ required_boot_files |-> Elements(REQUIRED_BOOT_FILES),
        required_control_plane_files |-> Elements(REQUIRED_CONTROL_PLANE_FILES),
        required_directories |-> {"control_plane"} ],
      [ required_boot_files |-> {<<"RUN_METABLOOMS.py">>, <<"boot_manifest.json">>},
        required_control_plane_files |-> {},
        required_directories |-> {} ] }

\* What stands beside the builder: no validator script, a validator script
\* without its manifest, or a validator script with a manifest.
Validators ==
    { [script |-> FALSE], [script |-> TRUE, manifest |-> FALSE] }
    \cup { [script |-> TRUE, manifest |-> TRUE, content |-> m] : m \in BuildManifests }

\* What the builder is given: a source directory (or none) or a template
\* archive (found, not found, or not a zip archive), the boot files and the
\* control plane the source or the template holds, and whether the entrypoint
\* prints BOOT_OK when run.
Projects ==
    { [ mode |-> "source", source_dir |-> TRUE, boot_files |-> fs,
        control_plane |-> cp, validator |-> v, boot_ok |-> ok ] :
        fs \in SUBSET Elements(REQUIRED_BOOT_FILES), cp \in BOOLEAN,
        v \in Validators, ok \in BOOLEAN }
    \cup { [ mode |-> "source", source_dir |-> FALSE, boot_files |-> {},
             control_plane |-> FALSE, validator |-> v, boot_ok |-> FALSE ] :
             v \in Validators }
    \cup { [ mode |-> "template", template |-> "ok", boot_files |-> fs,
             control_plane |-> cp, validator |-> v, boot_ok |-> ok ] :
             fs \in SUBSET Elements(REQUIRED_BOOT_FILES), cp \in BOOLEAN,
             v \in Validators, ok \in BOOLEAN }
    \cup { [ mode |-> "template", template |-> t, boot_files |-> {},
             control_plane |-> FALSE, validator |-> v, boot_ok |-> FALSE ] :
             t \in {"missing", "corrupt"}, v \in Validators }

NoBundle == [written |-> FALSE, names |-> {}]
NoReceipt == [written |-> FALSE]

\* build is called on a fresh MetaBloomsBuilder.
InitBuild ==
    /\ AuditIdle
    /\ ProbeIdle
    /\ SafeIdle
    /\ LedgerIdle
    /\ project \in Projects
    /\ builder = [ pc |-> "create_build_directory", build_dir |-> {}, errors |-> {},
                   bundle |-> NoBundle, receipt |-> NoReceipt, exc |-> "none" ]

\* build goes on to the next phase, or an exception leaves it.
Phase(next) == [builder EXCEPT !.pc = next]
BuildRaise(e) == [builder EXCEPT !.pc = "raised", !.exc = e]

create_build_directory ==
    /\ builder.pc = "create_build_directory"
    /\ builder' = [builder EXCEPT
            !.pc = IF project.mode = "template" THEN "extract_template"
                   ELSE "copy_boot_files",
            !.build_dir = {}]
    /\ UNCHANGED <<project, auditVars, probeVars, safeVars, ledgerVars>>

\* What the source or the template holds.
ControlPlaneOf(p) ==
    IF p.control_plane THEN Elements(REQUIRED_CONTROL_PLANE_FILES) ELSE {}

extract_template ==
    /\ builder.pc = "extract_template"
    /\ builder' =
         IF project.template = "missing" THEN BuildRaise("BuildError")
         ELSE IF project.template = "corrupt" THEN BuildRaise("BadZipFile")
         ELSE [builder EXCEPT
                 !.pc = "create_version_manifest",
                 !.build_dir = project.boot_files \cup ControlPlaneOf(project)]
    /\ UNCHANGED <<project, auditVars, probeVars, safeVars, ledgerVars>>

copy_boot_files ==
    /\ builder.pc = "copy_boot_files"
    /\ builder' =
         IF ~project.source_dir THEN BuildRaise("BuildError")
         ELSE LET copied == Elements(REQUIRED_BOOT_FILES) \cap project.boot_files
                  missing == Elements(REQUIRED_BOOT_FILES) \ project.boot_files
                  next == [builder EXCEPT !.build_dir = copied, !.errors = missing]
              IN  IF Cardinality(copied) < Len(REQUIRED_BOOT_FILES)
                  THEN [next EXCEPT !.pc = "raised", !.exc = "BuildError"]
                  ELSE [next EXCEPT !.pc = "copy_control_plane"]
    /\ UNCHANGED <<project, auditVars, probeVars, safeVars, ledgerVars>>

copy_control_plane ==
    /\ builder.pc = "copy_control_plane"
    /\ builder' =
         IF ~project.control_plane THEN BuildRaise("BuildError")
         ELSE [builder EXCEPT
                 !.pc = "copy_subsystems",
                 !.build_dir = @ \cup ControlPlaneOf(project)]
    /\ UNCHANGED <<project, auditVars, probeVars, safeVars, ledgerVars>>

copy_subsystems ==
    /\ builder.pc = "copy_subsystems"
    /\ builder' = [builder EXCEPT
            !.pc = "create_version_manifest",
            !.build_dir = @ \cup LearningRegistries]
    /\ UNCHANGED <<project, auditVars, probeVars, safeVars, ledgerVars>>

create_version_manifest ==
    /\ builder.pc = "create_version_manifest"
    /\ builder' = [builder EXCEPT
            !.pc = "create_meep_manifest",
            !.build_dir = @ \cup {<<"VERSION_MANIFEST.json">>}]
    /\ UNCHANGED <<project, auditVars, probeVars, safeVars, ledgerVars>>

create_meep_manifest ==
    /\ builder.pc = "create_meep_manifest"
    /\ builder' = [builder EXCEPT
            !.pc = "validate_build",
            !.build_dir = @ \cup {<<"MEEP_Manifest.json">>}]
    /\ UNCHANGED <<project, auditVars, probeVars, safeVars, ledgerVars>>

\* validate_os_bundle.py: the four validations of main on a file list, TRUE
\* when the script returns 0.
validate_boot_files(file_list, manifest) ==
    manifest.required_boot_files \subseteq file_list

validate_control_plane(file_list, manifest) ==
    manifest.required_control_plane_files \subseteq file_list

validate_directories(file_list, manifest) ==
    \A required_dir \in manifest.required_directories :
        \E f \in file_list : Len(f) > 1 /\ f[1] = required_dir

validate_boot_manifest_config(file_list) == <<"boot_manifest.json">> \in file_list

validate_os_bundle(file_list, validator) ==
    /\ validator.manifest
    /\ validate_boot_files(file_list, validator.content)
    /\ validate_control_plane(file_list, validator.content)
    /\ validate_directories(file_list, validator.content)
    /\ validate_boot_manifest_config(file_list)

\* validate_build and validate_zip: no validator script, no validation.
Validated(file_list) ==
    ~project.validator.script \/ validate_os_bundle(file_list, project.validator)

validate_build ==
    /\ builder.pc = "validate_build"
    /\ builder' = IF Validated(builder.build_dir) THEN Phase("test_boot")
                  ELSE BuildRaise("BuildError")
    /\ UNCHANGED <<project, auditVars, probeVars, safeVars, ledgerVars>>

test_boot ==
    /\ builder.pc = "test_boot"
    /\ builder' =
         IF <<"RUN_METABLOOMS.py">> \in builder.build_dir /\ project.boot_ok
         THEN Phase("create_zip_bundle")
         ELSE BuildRaise("BuildError")
    /\ UNCHANGED <<project, auditVars, probeVars, safeVars, ledgerVars>>

create_zip_bundle ==
    /\ builder.pc = "create_zip_bundle"
    /\ builder' = [builder EXCEPT
            !.pc = "validate_zip",
            !.bundle = [written |-> TRUE, names |-> builder.build_dir]]
    /\ UNCHANGED <<project, auditVars, probeVars, safeVars, ledgerVars>>

validate_zip ==
    /\ builder.pc = "validate_zip"
    /\ builder' = IF Validated(builder.bundle.names) THEN Phase("create_build_receipt")
                  ELSE BuildRaise("BuildError")
    /\ UNCHANGED <<project, auditVars, probeVars, safeVars, ledgerVars>>

create_build_receipt ==
    /\ builder.pc = "create_build_receipt"
    /\ builder' = [builder EXCEPT
            !.pc = "returned",
            !.receipt = [written |-> TRUE,
                         ready_for_distribution |-> builder.errors = {}]]
    /\ UNCHANGED <<project, auditVars, probeVars, safeVars, ledgerVars>>

NextBuild ==
    \/ create_build_directory
    \/ extract_template
    \/ copy_boot_files
    \/ copy_control_plane
    \/ copy_subsystems
    \/ create_version_manifest
    \/ create_meep_manifest
    \/ validate_build
    \/ test_boot
    \/ create_zip_bundle
    \/ validate_zip
    \/ create_build_receipt

SpecBuild == InitBuild /\ [][NextBuild]_vars

\* ------------- generate_ledger_entries.py, generate_reproducibility_ledger.py
\* The number of runs of the generator scripts.
MaxLedgerRuns == 2

\* The event types of the entries each main creates, in order.
SELF_ANALYSIS_EVENTS ==
    << "ANALYSIS_SESSION_START", "FINDING_CRITICAL", "FINDING_CRITICAL",
       "FINDING_CRITICAL", "FINDING_CRITICAL", "FINDING_CRITICAL", "FINDING_HIGH",
       "FINDING_HIGH", "FINDING_HIGH", "FINDING_HIGH", "FINDING_MEDIUM",
       "FINDING_MEDIUM", "FINDING_MEDIUM", "TEST_EXECUTION",
       "ANALYSIS_SESSION_COMPLETE" >>

REPRODUCIBILITY_EVENTS ==
    << "REPRODUCIBILITY_CHALLENGE", "HIDDEN_ADVANTAGES_ENUMERATED", "ARTIFACT_CREATED",
       "ARTIFACT_CREATED", "ARTIFACT_CREATED", "ARTIFACT_CREATED", "CLAIMS_RETRACTED",
       "VERIFICATION_TEST_PASSED", "REPRODUCIBILITY_ACHIEVED" >>

Scripts == {"generate_ledger_entries", "generate_reproducibility_ledger"}

EventsOf(script) ==
    IF script = "generate_ledger_entries" THEN SELF_ANALYSIS_EVENTS
    ELSE REPRODUCIBILITY_EVENTS

\* The file is a sequence of pieces: the JSON text of a value, or a line end.
NL == [nl |-> TRUE]
Json(value) == [nl |-> FALSE, json |-> value]

\* The lines of a text, without their line ends, as `for line in f` yields them.
RECURSIVE SplitLines(_, _, _)
SplitLines(text, i, line) ==
    IF i > Len(text) THEN (IF line = <<>> THEN <<>> ELSE <<line>>)
    ELSE IF text[i] = NL THEN <<line>> \o SplitLines(text, i + 1, <<>>)
    ELSE SplitLines(text, i + 1, Append(line, text[i]))

\* lines = [line.strip() for line in f if line.strip()]
StrippedLines(text) == SelectSeq(SplitLines(text, 1, <<>>), LAMBDA line : line # <<>>)

\* json.loads of a line: the value of its one JSON text, otherwise
\* JSONDecodeError.
Decodes(line) == Len(line) = 1
loads(line) == line[1].json

\* Whether json.loads(lines[-1]) returns, where a script reads the last line.
LastLineDecodes(text) ==
    LET lines == StrippedLines(text)
    IN  lines = <<>> \/ Decodes(lines[Len(lines)])

\* dict.get(key, default)
Get(d, key, default) == IF key \in DOMAIN d THEN d[key] ELSE default

\* f"evt_{num:06d}" and int(last_id.split("_")[1]): an event id is the prefix
\* and the decimal digits of the number, padded with zeros to six places.
RECURSIVE Decimal(_)
Decimal(num) == IF num < 10 THEN <<num>> ELSE Append(Decimal(num \div 10), num % 10)

RECURSIVE ZeroFill(_, _)
ZeroFill(digits, width) ==
    IF Len(digits) >= width THEN digits ELSE ZeroFill(<<0>> \o digits, width)

format_event_id(num) == <<"evt", ZeroFill(Decimal(num), 6)>>

RECURSIVE ParseInt(_)
ParseInt(digits) ==
    IF digits = <<>> THEN 0
    ELSE 10 * ParseInt(SubSeq(digits, 1, Len(digits) - 1)) + digits[Len(digits)]

\* SHA-256 of the canonical JSON text of an entry: the digest stands for the
\* entry it was computed from, so that two digests are equal exactly when the
\* entries are.
hash_entry(entry) == [sha256_of |-> entry]

\* The chain forgotten: every entry is written as if it were the first.
get_last_hash_unchained(text) == None

\* get_last_hash, on the text of the ledger.
get_last_hash(text) ==
    LET lines == StrippedLines(text)
    IN  IF lines = <<>> THEN None
        ELSE Get(loads(lines[Len(lines)]), "sha256", None)

\* get_next_event_id, on the text of the ledger: each script has its own
\* number for the first entry of an empty ledger.
FirstEventId(script) ==
    IF script = "generate_ledger_entries" THEN format_event_id(2) ELSE format_event_id(1)

DefaultLastId(script) ==
    IF script = "generate_ledger_entries" THEN format_event_id(1) ELSE format_event_id(0)

get_next_event_id(script, text) ==
    LET lines == StrippedLines(text)
    IN  IF lines = <<>> THEN FirstEventId(script)
        ELSE LET last_id == Get(loads(lines[Len(lines)]), "event_id", DefaultLastId(script))
             IN  format_event_id(ParseInt(last_id[2]) + 1)

\* create_entry: the entry, with the digest of all its fields but sha256.
create_entry(script, text, now, event_type, payload, prev_hash) ==
    LET entry_for_hash ==
            [ event_id |-> get_next_event_id(script, text), ts_utc |-> now,
              event_type |-> event_type, payload |-> payload,
              prev_sha256 |-> prev_hash ]
    IN  [ event_id |-> entry_for_hash.event_id, ts_utc |-> now,
          event_type |-> event_type, payload |-> payload,
          sha256 |-> hash_entry(entry_for_hash), prev_sha256 |-> prev_hash ]

\* append_entry: open(LEDGER, "a") and write the line.
append_entry(text, entry) == text \o <<Json(entry), NL>>

\* An entry another writer left in the ledger, the first of the log.
EarlierEntry ==
    create_entry("generate_reproducibility_ledger", <<>>, 0, "BOOT", <<"runtime", 1>>, None)

\* The ledger before the first run: no file, an empty file, or a file with one
\* earlier entry.
Ledgers ==
    { [exists |-> FALSE, content |-> <<>>],
      [exists |-> TRUE, content |-> <<>>],
      [exists |-> TRUE, content |-> <<Json(EarlierEntry), NL>>] }

\* No script runs yet.
InitLedger ==
    /\ AuditIdle
    /\ ProbeIdle
    /\ SafeIdle
    /\ BuildIdle
    /\ LEDGER \in Ledgers
    /\ generator = [ pc |-> "ready", script |-> "none", prev_hash |-> None,
                     appended |-> 0, runs |-> 0, now |-> 1, exc |-> "none",
                     found |-> Len(StrippedLines(LEDGER.content)) ]

\* main of a script starts: prev_hash = get_last_hash(). Only the first
\* script looks whether the file exists.
Start(script) ==
    /\ generator.pc \in {"ready", "returned", "raised"}
    /\ generator.runs < MaxLedgerRuns
    /\ generator' =
         LET run == [generator EXCEPT !.script = script, !.runs = @ + 1,
                                      !.appended = 0, !.exc = "none"]
         IN  IF ~LEDGER.exists /\ script = "generate_reproducibility_ledger"
             THEN [run EXCEPT !.pc = "raised", !.exc = "FileNotFoundError"]
             ELSE IF ~LastLineDecodes(LEDGER.content)
             THEN [run EXCEPT !.pc = "raised", !.exc = "JSONDecodeError"]
             ELSE [run EXCEPT !.pc = "running",
                              !.prev_hash = get_last_hash(LEDGER.content)]
    /\ UNCHANGED <<LEDGER, auditVars, probeVars, safeVars, buildVars>>

generate_ledger_entries_main == Start("generate_ledger_entries")

generate_reproducibility_ledger_main == Start("generate_reproducibility_ledger")

\* entry = create_entry(...); prev_hash = append_entry(entry)
create_and_append_entry ==
    /\ generator.pc = "running"
    /\ generator.appended < Len(EventsOf(generator.script))
    /\ LET k == generator.appended + 1
           entry == create_entry(generator.script, LEDGER.content, generator.now,
                                 EventsOf(generator.script)[k],
                                 <<generator.script, k>>, generator.prev_hash)
       IN  IF ~LastLineDecodes(LEDGER.content)
           THEN /\ generator' = [generator EXCEPT !.pc = "raised",
                                                  !.exc = "JSONDecodeError"]
                /\ UNCHANGED LEDGER
           ELSE /\ LEDGER' = [exists |-> TRUE,
                              content |-> append_entry(LEDGER.content, entry)]
                /\ generator' = [generator EXCEPT !.appended = k, !.now = @ + 1,
                                                  !.prev_hash = entry.sha256]
    /\ UNCHANGED <<auditVars, probeVars, safeVars, buildVars>>

\* main returns after its last entry.
main_returns ==
    /\ generator.pc = "running"
    /\ generator.appended = Len(EventsOf(generator.script))
    /\ generator' = [generator EXCEPT !.pc = "returned"]
    /\ UNCHANGED <<LEDGER, auditVars, probeVars, safeVars, buildVars>>

NextLedger ==
    \/ generate_ledger_entries_main
    \/ generate_reproducibility_ledger_main
    \/ create_and_append_entry
    \/ main_returns

SpecLedger == InitLedger /\ [][NextLedger]_vars

\* ----------------------------------------------------------------- claims
\* What the history says.
CheckRan(c) == \E i \in 1..Len(log) : log[i].ev = "check" /\ log[i].check = c

AddsBy(c) == SelectSeq(log, LAMBDA e : e.ev = "add" /\ e.check = c)

AddsIn(c, bucket) == SelectSeq(AddsBy(c), LAMBDA e : e.bucket = bucket)

Count(ev) == Cardinality({i \in 1..Len(log) : log[i].ev = ev})

RunEnded == pc \in {"returned", "raised", "done"}

\* Whether the bundle's root holds the named entry point.
EntrypointExists(t, name) == name = "RUN_METABLOOMS.py" /\ t.run

\* The keys the printed report must have.
FiveKeys ==
    {"verified_implementations", "present_but_unwired", "missing",
     "spec_conflicts", "unverifiable_with_given_tools"}

\* The findings whose only evidence is `needle in source` on the boot file.
KeywordOnlyComponents == {"Ledger integration", "boot_manifest.json loading"}

\* The findings of verified_implementations and present_but_unwired that say
\* what BOOT_METABLOOMS.py does or fails to do.
SaysWhatBootDoes ==
    {"BOOT_METABLOOMS.py", "Gate imports", "Gate files", "Ledger integration",
     "RUNTIME_INDEX.json", "boot_manifest.json", "boot_manifest.json loading"}

\* C1: for every bundle whose archive extracts, run returns and never raises:
\* once the run is past its checks no exception is in flight and all eight
\* checks have run.
C1_RunNeverRaises ==
    (bundle.readable /\ pc \in {"exit", "returned", "raised", "done"})
        => (exc = "none" /\ \A c \in CheckSet : CheckRan(c))

\* C2: no finding whose only evidence is a keyword match on the boot source is
\* ever in verified_implementations.
C2_NoKeywordOnlyVerified ==
    \A i \in 1..Len(report.verified_implementations) :
        report.verified_implementations[i].component \notin KeywordOnlyComponents

\* C3: every dictionary audit_bundle returns has exactly the five keys, each
\* mapped to a list.
C3_FiveListKeys ==
    pc = "done" =>
        /\ DOMAIN output = FiveKeys
        /\ \A k \in FiveKeys : DOMAIN output[k] = 1..Len(output[k])

\* C3 witness: a returned report with some buckets filled and one empty.
C3_Witness ==
    /\ pc = "done"
    /\ Len(output.verified_implementations) > 0
    /\ Len(output.missing) > 0
    /\ Len(output.unverifiable_with_given_tools) > 0
    /\ output.spec_conflicts = <<>>

\* C4: every finding of every bucket of a returned report has a component and
\* a reason.
C4_ComponentAndReason ==
    pc = "done" =>
        \A k \in DOMAIN output : \A i \in 1..Len(output[k]) :
            {"component", "reason"} \subseteq DOMAIN output[k][i]

\* C5: with no BOOT_METABLOOMS.py the run does not raise, the absence is
\* recorded by exactly one missing finding, and no finding of
\* verified_implementations or present_but_unwired says what the boot file does.
C5_BootlessShortCircuit ==
    (bundle.readable /\ bundle.tree.boot.kind = "absent") =>
        /\ pc # "raised"
        /\ CheckRan("check_boot_structure") =>
               Cardinality({i \in 1..Len(report.missing) :
                   report.missing[i].component = "BOOT_METABLOOMS.py"}) = 1
        /\ \A b \in {"verified_implementations", "present_but_unwired"} :
               \A i \in 1..Len(report[b]) : report[b][i].component \notin SaysWhatBootDoes

\* C6: with no BOOT_METABLOOMS.py every check that needs the boot file and has
\* run has added a missing finding of its own.
C6_BootlessOwnMissingEntries ==
    (bundle.readable /\ bundle.tree.boot.kind = "absent") =>
        \A c \in {"check_delta_enforcement", "check_ledger_integration"}
                 \cup (IF bundle.tree.gates > 0 THEN {"check_gate_wiring"} ELSE {})
                 \cup (IF bundle.tree.manifest.kind # "absent"
                       THEN {"check_manifest_loading"} ELSE {}) :
            CheckRan(c) => Len(AddsIn(c, "missing")) > 0

\* C7: the workspace is acquired before the first check and deleted exactly
\* once after the last, on every exit path; no check runs outside it.
C7_WorkspaceScoped ==
    /\ pc \in CheckSet => ws = "live"
    /\ \A i \in 1..Len(log) : log[i].ev = "check" =>
           /\ \E j \in 1..(i - 1) : log[j].ev = "acquire"
           /\ \A j \in 1..(i - 1) : log[j].ev # "delete"
    /\ Count("delete") <= 1
    /\ RunEnded => (Count("delete") = 1 /\ ws = "deleted")

\* C7 witness: a run that a check ended by raising, with the workspace deleted.
C7_Witness ==
    /\ pc = "raised"
    /\ exc = "AttributeError"
    /\ CheckRan("check_index_usage")
    /\ ws = "deleted"

\* C8: an archive with a member that would escape the workspace is rejected:
\* no check runs, nothing is written outside, the audit ends with BundleCorrupt.
C8_TraversalRejected ==
    (bundle.readable /\ EscapesRoot(bundle.member)) =>
        /\ pc \notin CheckSet
        /\ \A c \in CheckSet : ~CheckRan(c)
        /\ \A p \in written : ~EscapesRoot(p)
        /\ RunEnded => (pc = "raised" /\ exc = "BundleCorrupt")

\* C9: check_boot_structure adds exactly one finding: missing BOOT_METABLOOMS.py
\* when the boot file is absent, else missing RUN_METABLOOMS.py when the run
\* file is absent, else verified_implementations when the boot file parses,
\* else missing with the parser's message and line.
C9_BootStructureOneFinding ==
    CheckRan("check_boot_structure") =>
        LET adds == AddsBy("check_boot_structure")
            t == bundle.tree
        IN  /\ Len(adds) = 1
            /\ IF t.boot.kind = "absent"
               THEN adds[1].bucket = "missing" /\ adds[1].component = "BOOT_METABLOOMS.py"
               ELSE IF ~t.run
               THEN adds[1].bucket = "missing" /\ adds[1].component = "RUN_METABLOOMS.py"
               ELSE IF t.boot.kind = "text" /\ SyntaxErrorOf(t.boot.src) = ""
               THEN adds[1].bucket = "verified_implementations"
               ELSE /\ adds[1].bucket = "missing"
                    /\ report.missing[1].reason = "Syntax error: " \o SyntaxErrorOf(t.boot.src)

\* C10: when boot_manifest.json declares an entrypoint that the bundle does not
\* hold, check_boot_structure adds a missing finding naming that entrypoint.
C10_DeclaredEntrypointCited ==
    ( /\ bundle.readable
      /\ bundle.tree.manifest.kind = "object"
      /\ bundle.tree.manifest.entrypoint # ""
      /\ ~EntrypointExists(bundle.tree, bundle.tree.manifest.entrypoint)
      /\ CheckRan("check_boot_structure") ) =>
        \E i \in 1..Len(AddsIn("check_boot_structure", "missing")) :
            AddsIn("check_boot_structure", "missing")[i].component
                = bundle.tree.manifest.entrypoint

\* ------------------------------------------------------------ C11 .. C20
\* The findings the step being taken appends to a bucket.
NewIn(bucket) ==
    SubSeq(report'[bucket], Len(report[bucket]) + 1, Len(report'[bucket]))

\* The number of findings the step being taken appends to the report.
NewCount ==
    LET RECURSIVE Sum(_)
        Sum(i) == IF i = 0 THEN 0 ELSE Len(NewIn(Buckets[i])) + Sum(i - 1)
    IN  Sum(Len(Buckets))

\* The step being taken appends exactly one finding, to the named bucket, and
\* leaves the findings already there as they are.
OneNewIn(bucket) ==
    /\ NewCount = 1
    /\ Len(NewIn(bucket)) = 1
    /\ \A b \in BucketSet :
         SubSeq(report'[b], 1, Len(report[b])) = report[b]

\* The names of the boot file's import list that contain 'gate'.
MatchingImports(boot) ==
    SelectSeq(extract_imports(boot), LAMBDA imp : "gate" \in Parts(Lower(imp)))

\* C11: with the boot file in place, check_gate_wiring adds one finding: with
\* no *gate*.py file a `missing` one; with gate files and no import whose name
\* contains 'gate' a present_but_unwired one whose count is the number of gate
\* files and whose files are at most 10 of their names; with gate files and
\* such an import a verified_implementations one whose imports are exactly
\* the matching imports.
C11_GateClassification ==
    [][ (pc = "check_gate_wiring" /\ tree.boot.kind = "text") =>
          CASE tree.gates = 0 ->
                 OneNewIn("missing")
            [] tree.gates > 0 /\ MatchingImports(tree.boot) = <<>> ->
                 /\ OneNewIn("present_but_unwired")
                 /\ LET f == NewIn("present_but_unwired")[1]
                    IN  /\ f.count = tree.gates
                        /\ Len(f.files) <= 10
                        /\ \A i \in 1..Len(f.files) :
                             \E k \in 1..tree.gates : f.files[i] = GateName(k)
                        /\ \A i, j \in 1..Len(f.files) :
                             f.files[i] = f.files[j] => i = j
            [] tree.gates > 0 /\ MatchingImports(tree.boot) # <<>> ->
                 /\ OneNewIn("verified_implementations")
                 /\ NewIn("verified_implementations")[1].imports
                      = MatchingImports(tree.boot) ]_vars

\* C11 happens: a bundle with more than ten gate files and a boot file that
\* imports none of them has its gate finding, with the full count and a
\* sample of ten names.
C11_Witness ==
    /\ pc = "check_schema_usage"
    /\ tree.gates > 10
    /\ Len(report.present_but_unwired) > 0
    /\ LET f == report.present_but_unwired[Len(report.present_but_unwired)]
       IN  f.component = "Gate files" /\ f.count = tree.gates /\ Len(f.files) = 10

\* The sources of every file of the bundle, at any directory depth.
AllSources(t) ==
    (IF t.boot.kind = "text" THEN {t.boot.src} ELSE {})
    \cup {e.src : e \in t.extras}

\* C12: when schemas/ holds N >= 1 *.json files, check_schema_usage adds a
\* present_but_unwired finding with count N if and only if no file anywhere in
\* the bundle, at any directory depth, contains 'jsonschema' or 'validate('.
C12_SchemaUnwiredIffNoFileValidates ==
    [][ (pc = "check_schema_usage" /\ tree.schemas >= 1) =>
          ( ( /\ Len(NewIn("present_but_unwired")) = 1
              /\ NewIn("present_but_unwired")[1].count = tree.schemas )
            <=> ~ \E src \in AllSources(tree) :
                    Contains(src, "jsonschema") \/ Contains(src, "validate(") ) ]_vars

\* The path a LEDGER_PATH assignment of the source gives, "" when none does.
CapturedLedgerPath(source) ==
    IF \E i \in 1..Len(source) : source[i] = "LEDGER_PATH = 'boot.ndjson'"
    THEN "boot.ndjson" ELSE ""

\* C13: with the boot file in place, check_ledger_integration adds exactly one
\* finding: a verified_implementations one if the boot source mentions
\* 'ledger' (in any case) with 'open(' or '.write(' and holds "a" or 'a', its
\* path the one captured from LEDGER_PATH or else the default; otherwise a
\* `missing` one.  A source with 'ledger' and "a" but neither 'write(' nor
\* 'open(' gets the `missing` one.
C13_LedgerOneFinding ==
    [][ (pc = "check_ledger_integration" /\ tree.boot.kind # "absent") =>
          LET source == tree.boot.src
              writes == /\ ContainsLower(source, "ledger")
                        /\ (Contains(source, "open(") \/ Contains(source, ".write("))
              appends == Contains(source, "\"a\"") \/ Contains(source, "'a'")
          IN  /\ IF writes /\ appends
                 THEN /\ OneNewIn("verified_implementations")
                      /\ NewIn("verified_implementations")[1].component = "Ledger integration"
                      /\ NewIn("verified_implementations")[1].path =
                           (IF CapturedLedgerPath(source) # ""
                            THEN CapturedLedgerPath(source)
                            ELSE "governance/epistemic_ledger.ndjson")
                 ELSE /\ OneNewIn("missing")
                      /\ NewIn("missing")[1].component = "Ledger integration"
              /\ ( /\ Contains(source, "ledger") /\ Contains(source, "\"a\"")
                   /\ ~Contains(source, "write(") /\ ~Contains(source, "open(") )
                     => OneNewIn("missing") ]_vars

\* C13 happens: a boot file that writes the ledger in append mode and assigns
\* LEDGER_PATH has its verified finding with the captured path.
C13_Witness ==
    /\ pc = "check_index_usage"
    /\ \E i \in 1..Len(report.verified_implementations) :
         /\ report.verified_implementations[i].component = "Ledger integration"
         /\ report.verified_implementations[i].path = "boot.ndjson"

\* C14: when RUNTIME_INDEX.json is a JSON object, check_index_usage adds a
\* present_but_unwired finding carrying the index's top-level keys exactly
\* when the boot file does not reference the index, and none when it does;
\* when the file is not JSON it adds a `missing` finding with the parse error.
C14_IndexUnwiredIffUnreferenced ==
    [][ (pc = "check_index_usage") =>
          /\ tree.index.kind = "object" =>
               /\ Len(NewIn("present_but_unwired")) =
                    (IF tree.boot.kind = "text" /\ loads_file(tree.boot, "RUNTIME_INDEX.json")
                     THEN 0 ELSE 1)
               /\ \A i \in 1..Len(NewIn("present_but_unwired")) :
                    NewIn("present_but_unwired")[i].top_level_keys = tree.index.keys
          /\ tree.index.kind = "invalid" =>
               /\ OneNewIn("missing")
               /\ NewIn("missing")[1].reason = "Invalid JSON: " \o JsonErrorText ]_vars

\* The source files of the bundle, each with its name and its text.
SourceFiles(t) ==
    (IF t.boot.kind = "text"
     THEN {[name |-> "BOOT_METABLOOMS.py", src |-> t.boot.src]} ELSE {})
    \cup {[name |-> e.name, src |-> e.src] : e \in t.extras}

\* The names of the source files in which 'csrg' appears in any letter case.
MentionsCsrg(t) ==
    {f.name : f \in {g \in SourceFiles(t) :
                       \E i \in 1..Len(g.src) : "csrg" \in Parts(Lower(g.src[i]))}}

\* C15: each time it runs, check_csrg_presence adds exactly one finding and
\* none to verified_implementations: if 'csrg', in any letter case, appears in
\* a source file of the bundle the finding is in the unverifiable list and its
\* files are the matching files, each once; if in none, it is in `missing`.
C15_CsrgOneFindingNeverVerified ==
    [][ (pc = "check_csrg_presence") =>
          /\ NewIn("verified_implementations") = <<>>
          /\ IF MentionsCsrg(tree) # {}
             THEN /\ OneNewIn("unverifiable")
                  /\ LET files == NewIn("unverifiable")[1].files
                     IN  /\ {files[i] : i \in 1..Len(files)} = MentionsCsrg(tree)
                         /\ Len(files) = Cardinality(MentionsCsrg(tree))
             ELSE OneNewIn("missing") ]_vars

\* C15 happens: a bundle in which the boot file and a file below the root
\* both mention the keyword has its one finding, listing both.
C15_Witness ==
    /\ pc = "check_manifest_loading"
    /\ Len(report.unverifiable) = 1
    /\ report.unverifiable[1].component = "CSRG gate"
    /\ Len(report.unverifiable[1].files) = 2
    /\ \E i \in 1..2 : report.unverifiable[1].files[i] = "csrg_impl.py"

\* C16: when boot_manifest.json is valid JSON and the boot file exists,
\* check_manifest_loading adds a present_but_unwired finding, carrying the
\* manifest's preflight list and its length, if and only if the boot source
\* does not contain 'boot_manifest.json'; when the manifest is absent or not
\* JSON it adds a `missing` finding.
C16_ManifestUnwiredIffUnreferenced ==
    [][ (pc = "check_manifest_loading") =>
          /\ (tree.manifest.kind \in {"array", "object"} /\ tree.boot.kind = "text") =>
               /\ Len(NewIn("present_but_unwired")) =
                    (IF Contains(tree.boot.src, "boot_manifest.json") THEN 0 ELSE 1)
               /\ \A i \in 1..Len(NewIn("present_but_unwired")) :
                    /\ NewIn("present_but_unwired")[i].preflight_gates = tree.manifest.preflight
                    /\ NewIn("present_but_unwired")[i].preflight_count
                         = Len(tree.manifest.preflight)
          /\ tree.manifest.kind \in {"absent", "invalid"} => OneNewIn("missing") ]_vars

\* One when the condition holds, else zero.
OneIf(cond) == IF cond THEN 1 ELSE 0

\* C17: on a boot file that exists, check_delta_enforcement adds one `missing`
\* finding if the source mentions neither 'latest.json' nor 'manifests', and
\* another if it does not mention both 'delta' and 'sha256' (so none, one or
\* two), and the evidence of each names the file or keyword searched for.
C17_DeltaTwoConditionsWithEvidence ==
    [][ (pc = "check_delta_enforcement" /\ tree.boot.kind = "text") =>
          LET source == tree.boot.src
              noManifest == ~Contains(source, "latest.json") /\ ~Contains(source, "manifests")
              noHash == ~(ContainsLower(source, "delta") /\ Contains(source, "sha256"))
              new == NewIn("missing")
          IN  /\ NewCount = Len(new)
              /\ Len(new) = OneIf(noManifest) + OneIf(noHash)
              /\ noManifest => new[1].component = "Delta manifest loading"
              /\ noHash => new[Len(new)].component = "Delta SHA256 verification"
              /\ \A i \in 1..Len(new) :
                   IF new[i].component = "Delta manifest loading"
                   THEN Parts(new[i].evidence) \cap {"latest.json", "manifests"} # {}
                   ELSE Parts(new[i].evidence) \cap {"delta", "sha256"} # {} ]_vars

\* C18: for a fixed bundle, a second run of audit_bundle returns the report
\* the first one returned, the lists inside the findings included, whatever
\* order the directories are enumerated in.
C18_TwoRunsSameReport ==
    (pc = "done" /\ earlier # <<>>) => output = earlier[1]

\* The tree with the offending line of the boot file taken out.
Repaired(t) ==
    [t EXCEPT !.boot.src = SelectSeq(@, LAMBDA f : f # BadSyntax)]

\* What check c may do on tree t, over the orders its listing may come in.
OutcomesOn(c, t) ==
    CASE c = "check_boot_structure"     -> {check_boot_structure(t)}
      [] c = "check_delta_enforcement"  -> {check_delta_enforcement(t)}
      [] c = "check_gate_wiring"        ->
           {check_gate_wiring(t, l) : l \in GateListings(t.gates)}
      [] c = "check_schema_usage"       ->
           {check_schema_usage(t, l) : l \in Listings({SchemaName(i) : i \in 1..t.schemas})}
      [] c = "check_ledger_integration" -> {check_ledger_integration(t)}
      [] c = "check_index_usage"        -> {check_index_usage(t)}
      [] c = "check_csrg_presence"      ->
           {check_csrg_presence(t, l) : l \in Listings(CsrgFileNames(t))}
      [] c = "check_manifest_loading"   -> {check_manifest_loading(t)}

\* C19: a syntax error in BOOT_METABLOOMS.py is local: the boot-structure
\* check (RUN_METABLOOMS.py being there) records it as its one `missing`
\* finding, and every other check does
\* what it does on the same bundle with the offending line taken out; the
\* gate check does not report the gate files unwired because the imports
\* could not be extracted.
C19_SyntaxErrorIsLocal ==
    [][ (pc \in CheckSet /\ tree.boot.kind = "text" /\ SyntaxErrorOf(tree.boot.src) # "") =>
          IF pc = "check_boot_structure"
          THEN tree.run =>
                 /\ OneNewIn("missing")
                 /\ NewIn("missing")[1].component = "BOOT_METABLOOMS.py"
                 /\ NewIn("missing")[1].reason = "Syntax error: " \o SyntaxErrorOf(tree.boot.src)
          ELSE \E out \in OutcomesOn(pc, Repaired(tree)) :
                 /\ report' = Appended(report, out.adds)
                 /\ exc' = out.exc ]_vars

\* The positions of the history at which check c was called.
CallsOf(c) == {i \in 1..Len(log) : log[i].ev = "check" /\ log[i].check = c}

\* The findings of a bucket, in the order the history has them added.
AddedTo(bucket) == SelectSeq(log, LAMBDA e : e.ev = "add" /\ e.bucket = bucket)

\* C20: within each bucket the findings are in the order of their checks (boot
\* structure, delta enforcement, gate wiring, schema usage, ledger
\* integration, index usage, CSRG presence, manifest loading), a finding once
\* added stays where it is, and when the audit of an extracted bundle has
\* ended every one of the eight checks has run exactly once.
C20_ChecksInOrderOnce ==
    /\ \A b \in BucketSet :
         /\ Len(AddedTo(b)) = Len(report[b])
         /\ \A i \in 1..Len(report[b]) :
              AddedTo(b)[i].component = report[b][i].component
         /\ \A i, j \in 1..Len(AddedTo(b)) :
              i < j => IndexOfCheck(AddedTo(b)[i].check) <= IndexOfCheck(AddedTo(b)[j].check)
    /\ \A c \in CheckSet : Cardinality(CallsOf(c)) <= 1
    /\ (bundle.readable /\ RunEnded) =>
         \A c \in CheckSet : Cardinality(CallsOf(c)) = 1

\* ------------------------------------------------------------ C21 .. C30
\* C21: if the archive cannot be opened or extracted the audit aborts before
\* any check runs: no check is called, no bucket gets a finding and
\* audit_bundle returns no report.
C21_CorruptArchiveAborts ==
    ~bundle.readable =>
        /\ \A c \in CheckSet : ~CheckRan(c)
        /\ report = EmptyReport
        /\ output = NoOutput
        /\ pc \notin CheckSet \cup {"returned", "done"}

\* C21 happens: the run on an archive that is no zip file has ended, with
\* BadZipFile leaving audit_bundle.
C21_Witness ==
    ~bundle.readable /\ pc = "raised" /\ exc = "BadZipFile" /\ Count("extract") = 1

\* C22: spec_conflicts is empty in every report, the one the auditor holds at
\* any moment and the one audit_bundle returns.
C22_SpecConflictsEmpty ==
    /\ report.spec_conflicts = <<>>
    /\ AddedTo("spec_conflicts") = <<>>
    /\ output # NoOutput => output.spec_conflicts = <<>>

\* C22 happens: a report has been returned, after all eight checks, with
\* findings in the other four buckets.
C22_Witness ==
    /\ pc = "done"
    /\ \A c \in CheckSet : CheckRan(c)
    /\ \A k \in FiveKeys \ {"spec_conflicts"} : Len(output[k]) > 0

\* The components of all findings of the report, bucket after bucket.
ComponentsOf(rep) ==
    LET RECURSIVE All(_)
        All(i) == IF i = 0 THEN <<>>
                  ELSE All(i - 1)
                       \o [k \in 1..Len(rep[Buckets[i]]) |-> rep[Buckets[i]][k].component]
    IN  All(Len(Buckets))

\* C30: in every report each check has its findings in at most one bucket and
\* no component is there twice, in two buckets or in one: BOOT_METABLOOMS.py
\* is never both verified and missing; once the ledger check has run on a
\* bundle with the boot file, 'Ledger integration' is in exactly one of
\* verified_implementations and missing; once the index check has returned,
\* RUNTIME_INDEX.json is in exactly one of present_but_unwired and missing.
C30_OneBucketPerComponent ==
    /\ \A c \in CheckSet :
         Cardinality({AddsBy(c)[i].bucket : i \in 1..Len(AddsBy(c))}) <= 1
    /\ \A i, j \in 1..Len(ComponentsOf(report)) :
         ComponentsOf(report)[i] = ComponentsOf(report)[j] => i = j
    /\ (CheckRan("check_ledger_integration") /\ tree.boot.kind # "absent") =>
         Len(SelectSeq(ComponentsOf(report), LAMBDA n : n = "Ledger integration")) = 1
    /\ (CheckRan("check_index_usage") /\ pc \in CheckSet) =>
         Len(SelectSeq(ComponentsOf(report), LAMBDA n : n = "RUNTIME_INDEX.json")) = 1

\* C30 happens: a run in which the ledger finding is verified and the index
\* finding is missing, and the boot-structure check found the run file gone.
C30_Witness ==
    /\ pc = "exit"
    /\ exc = "none"
    /\ \E i \in 1..Len(report.verified_implementations) :
         report.verified_implementations[i].component = "Ledger integration"
    /\ \E i \in 1..Len(report.missing) :
         report.missing[i].component = "RUNTIME_INDEX.json"
    /\ \E i \in 1..Len(report.missing) :
         report.missing[i].component = "RUN_METABLOOMS.py"

\* The keys of a capability surface.
SurfaceKeys ==
    {"file_reads", "imports", "path_constants", "function_definitions",
     "external_calls", "string_literals", "fail_exit_codes"}

\* C23: capability extraction is total: on a source that does not parse,
\* extract_all returns a surface with the seven fields, and each extract_*
\* method returns its empty result; none raises.
C23_ExtractionTotal ==
    (boot_source.tree.kind = "None" /\ surface # NoSurface) =>
        /\ surface.raised = "none"
        /\ IF surface.call = "extract_all"
           THEN DOMAIN surface.value = SurfaceKeys
           ELSE surface.value = <<>> \/ surface.value = {}

\* The nodes of the parsed source, in no particular order.
NodesOf(src) == {walk(src.tree)[i] : i \in 1..Len(walk(src.tree))}

\* The keys of a dict kept as its items.
KeysOf(d) == {d[i].key : i \in 1..Len(d)}

\* C24: extract_path_constants records an assignment target if and only if
\* it is a bare identifier that is entirely upper-case and contains 'PATH' or
\* 'DIR'; 'outDIR' is never recorded.
C24_UpperCasePathOrDir ==
    (boot_source.tree.kind # "None" /\ surface.call = "extract_path_constants") =>
        /\ KeysOf(surface.value) =
             { n.children[1].id :
                 n \in {a \in NodesOf(boot_source) :
                          /\ a.kind = "Assign"
                          /\ a.children[1].kind = "Name"
                          /\ isupper(a.children[1].id)
                          /\ NameParts(a.children[1].id) \cap {"PATH", "DIR"} # {}} }
        /\ "outDIR" \notin KeysOf(surface.value)

\* The _die calls with at least two positional arguments, the first a
\* literal integer.
IntegerDieCalls(src) ==
    {n \in NodesOf(src) :
        /\ IsDieCall(n)
        /\ Len(ArgsOf(n)) >= 2
        /\ ArgsOf(n)[1].kind = "Constant"
        /\ ArgsOf(n)[1].lit.t = "int"}

\* The message to record for a call: the text of a literal string, the
\* f-string placeholder for a template string, else the dynamic marker.
MessageFor(call) ==
    LET arg == ArgsOf(call)[2]
    IN  IF arg.kind = "Constant" /\ arg.lit.t = "str" THEN arg.lit
        ELSE IF arg.kind = "JoinedStr" THEN StrLit("<f-string>")
        ELSE StrLit("<dynamic>")

\* C25: extract_exit_codes has an entry exactly for the codes of the _die
\* calls with at least 2 positional arguments whose first is a literal
\* integer, so every key is an integer, and the message of an entry is that
\* of such a call: the literal text, the f-string placeholder, or the dynamic
\* marker.
C25_ExitCodesIntegerKeys ==
    (boot_source.tree.kind # "None" /\ surface.call = "extract_exit_codes") =>
        /\ \A k \in KeysOf(surface.value) : k.t = "int"
        /\ KeysOf(surface.value) =
             {ArgsOf(n)[1].lit : n \in IntegerDieCalls(boot_source)}
        /\ \A i \in 1..Len(surface.value) :
             \E n \in IntegerDieCalls(boot_source) :
                 /\ ArgsOf(n)[1].lit = surface.value[i].key
                 /\ MessageFor(n) = surface.value[i].value

\* The calls extract_exit_codes takes an entry from.
RecordedDieCalls(src) ==
    {n \in NodesOf(src) :
        IsDieCall(n) /\ Len(ArgsOf(n)) >= 2 /\ ArgsOf(n)[1].kind = "Constant"}

\* A list of items that is in source order: by line, top to bottom.
InSourceOrder(items) ==
    \A i, j \in 1..Len(items) : i < j => items[i].line <= items[j].line

\* C29: the tree is traversed in pre-order, that is in source order: of
\* several _die calls with the same exit code the message kept is that of the
\* last one in the source, also when an earlier call is nested deeper, and
\* function_defs and file_reads are listed in source order.
C29_PreOrderLastWriterWins ==
    /\ (boot_source.tree.kind # "None" /\ surface.call = "extract_exit_codes") =>
         \A i \in 1..Len(surface.value) :
            LET same == {n \in RecordedDieCalls(boot_source) :
                            ArgsOf(n)[1].lit = surface.value[i].key}
                last == CHOOSE n \in same : \A m \in same : m.line <= n.line
            IN  surface.value[i].value =
                  (IF ArgsOf(last)[2].kind = "Constant" THEN ArgsOf(last)[2].lit
                   ELSE IF ArgsOf(last)[2].kind = "JoinedStr" THEN StrLit("<f-string>")
                   ELSE StrLit("<dynamic>"))
    /\ (boot_source.tree.kind # "None"
        /\ surface.call \in {"extract_function_defs", "extract_file_reads"}) =>
         InSourceOrder(surface.value)

\* The name the manifest of the runtime directory gives its entrypoint.
NamedEntrypoint(box) ==
    IF \E i \in 1..Len(box.manifest.keys) : box.manifest.keys[i] = "entrypoint"
    THEN box.manifest.entrypoint ELSE "RUN_METABLOOMS.py"

\* Whether the runtime directory holds the manifest and the file it names.
EntrypointInRuntime(box) ==
    box.manifest.kind = "object" /\ NamedEntrypoint(box) \in box.files

\* C26: main attempts to boot only with boot_manifest.json in the runtime
\* directory and the entrypoint file it names (by default RUN_METABLOOMS.py)
\* in that directory, and boots that file; when no bundle is found,
\* extraction fails, the manifest is absent or the entrypoint is absent,
\* main returns 1 and never attempts to boot.
C26_BootOnlyVerifiedEntrypoint ==
    /\ \A i \in 1..Len(safeboot.booted) :
         /\ EntrypointInRuntime(sandbox)
         /\ safeboot.booted[i] = [inside |-> TRUE, rel |-> NamedEntrypoint(sandbox)]
    /\ ( /\ safeboot.pc \in {"returned", "raised"}
         /\ \/ ~sandbox.found
            \/ ~sandbox.extracts
            \/ sandbox.manifest.kind = "absent"
            \/ sandbox.manifest.kind = "object" /\ ~EntrypointInRuntime(sandbox) )
       => (safeboot.pc = "returned" /\ safeboot.rc = 1 /\ safeboot.booted = <<>>)


\* The required boot files that the build directory lacks.
AbsentBootFiles == Elements(REQUIRED_BOOT_FILES) \ builder.build_dir

\* C27: every bundle build writes holds all six REQUIRED_BOOT_FILES, with a
\* source directory and with a template alike: whenever build ends with a
\* required boot file absent from the build directory, it has raised
\* BuildError, create_zip_bundle has not run, and neither a bundle nor a
\* receipt is written.
C27_BundleHoldsRequiredBootFiles ==
    builder.pc # "idle" =>
      /\ builder.bundle.written =>
           Elements(REQUIRED_BOOT_FILES) \subseteq builder.bundle.names
      /\ (builder.pc \in {"returned", "raised"} /\ AbsentBootFiles # {}) =>
           /\ builder.pc = "raised"
           /\ builder.exc = "BuildError"
           /\ ~builder.bundle.written
           /\ ~builder.receipt.written


\* The entries of the ledger, one for each line that is not blank.
LedgerLines == StrippedLines(LEDGER.content)
LedgerEntry(i) == loads(LedgerLines[i])
EventNumber(entry) == ParseInt(entry.event_id[2])

\* Every entry the scripts appended is chained to the entry before it.
Chained ==
    /\ \A i \in 1..Len(LedgerLines) : Decodes(LedgerLines[i])
    /\ \A i \in (generator.found + 1)..Len(LedgerLines) :
         IF i = 1 THEN LedgerEntry(i).prev_sha256 = None
         ELSE /\ LedgerEntry(i).prev_sha256 = LedgerEntry(i - 1).sha256
              /\ LedgerEntry(i).prev_sha256 # None
              /\ EventNumber(LedgerEntry(i)) = EventNumber(LedgerEntry(i - 1)) + 1

\* A step leaves what the file held where it was.
AppendOnly ==
    /\ Len(LEDGER'.content) >= Len(LEDGER.content)
    /\ SubSeq(LEDGER'.content, 1, Len(LEDGER.content)) = LEDGER.content

====
